---- MODULE Spec2Model ----
(***************************************************************************)
(* A model of the yahtzee terminal game: the dice of a Hand (hand.rs), the *)
(* turn state machine Play (play.rs), the scoring rules (scoring.rs), the  *)
(* per-player ScoreTable (score_table.rs), GameData (game_data.rs) and the *)
(* event handlers of App (app.rs).                                         *)
(*                                                                         *)
(* Conventions.  Option<T> is a sequence of length 0 (None) or 1 (Some).   *)
(* Positions of dice are 0-based as in the source; TLA+ sequences are      *)
(* 1-based, so the die at position pos is hand[pos + 1].  A fallible or    *)
(* random operation is an operator that yields the SET of its possible     *)
(* outcomes, each outcome a record holding the new value and the result    *)
(* ("Ok", the error as "Type::Variant", or "Panic").                       *)
(***************************************************************************)
EXTENDS Integers, Sequences, FiniteSets, TLC

VARIABLES
    state,      \* App.state: the tag of AppState
    start_sel,  \* the StartMenuSelection carried by AppState::StartMenu
    num_sel,    \* the NumPlayersSelection of AppState::SelectNumPlayers (0 = Back)
    play,       \* Option<Play>: the Play carried by AppState::Play
    cursor,     \* the PlayCursorPos carried by AppState::Play
    game_data,  \* App.game_data: Option<GameData>
    rng,        \* the faces the random source of Die::new can produce
    op,         \* the entry point called last
    ret         \* what that call returned

vars == <<state, start_sel, num_sel, play, cursor, game_data, rng, op, ret>>

(***************************************************************************)
(* Program constants                                                       *)
(***************************************************************************)
DICE_NUM == 5
INIT_ROLL_COUNT == 1
MAX_ROLL_COUNT == 3
LOWEST_PLAYER_ID == 1
HIGHEST_PLAYER_ID == 4
FULL_HOUSE_SCORE == 25
SMALL_STRAIGHT_SCORE == 30
LARGE_STRAIGHT_SCORE == 40
YAHTZEE_SCORE == 50
BONUS_POINT == 35

PIPS == <<1, 2, 3, 4, 5, 6>>

\* enum Boxes, in declaration order (the order of enum_iterator::all)
Boxes ==
    << "Aces", "Twos", "Threes", "Fours", "Fives", "Sixes",
       "ThreeOfaAKind", "FourOfaAKind", "FullHouse", "SmallStraight",
       "LargeStraight", "Yahtzee", "Chance" >>

BoxSet == { Boxes[i] : i \in 1..Len(Boxes) }

\* enum Actions
Actions == { "Select", "Up", "Down", "Right", "Left", "Exit", "Pass" }

(***************************************************************************)
(* Bounds of the model                                                     *)
(***************************************************************************)
\* the random source draws among the first NumFaces faces of PIPS
NumFaces == 2
\* the games explored are those started for at most MaxPlayers players
MaxPlayers == 2
\* the turns (Plays) of a game that Spec explores with every event and roll
MaxTurns == 2

(***************************************************************************)
(* Generic helpers                                                         *)
(***************************************************************************)
None == << >>
Some(x) == << x >>
IsSome(o) == Len(o) = 1
IsNone(o) == Len(o) = 0
Unwrap(o) == o[1]

RECURSIVE SumTo(_, _)
SumTo(s, n) == IF n = 0 THEN 0 ELSE SumTo(s, n - 1) + s[n]

SumSeq(s) == SumTo(s, Len(s))

\* the subsequence of s at the (1-based) positions satisfying keep
RECURSIVE Filter(_, _)
Filter(s, keep) ==
    IF s = << >> THEN << >>
    ELSE (IF keep[1] THEN << Head(s) >> ELSE << >>)
         \o Filter(Tail(s), [i \in 1..(Len(s) - 1) |-> keep[i + 1]])

Count(s, P(_)) == Cardinality({ i \in 1..Len(s) : P(s[i]) })

(***************************************************************************)
(* hand.rs: Die and Hand                                                   *)
(***************************************************************************)
\* Die::new: a random pip, not held
Die_new == { [pip |-> PIPS[i], is_held |-> FALSE] : i \in rng }

\* Die::gen_n_dice: every sequence of num new dice
gen_n_dice(num) == [1..num -> Die_new]

\* Hand::new
Hand_new == << >>

\* Hand::get_pips: Ok(pips) for a hand of DICE_NUM dice, the pips inside the
\* error ReturnShortHand for a shorter hand, TooBigHand for a longer one
get_pips(hand) ==
    IF ~(Len(hand) <= DICE_NUM) THEN [ret |-> "HandOpError::TooBigHand", val |-> << >>]
    ELSE LET pips == [i \in 1..Len(hand) |-> hand[i].pip]
         IN  IF Len(pips) = DICE_NUM
             THEN [ret |-> "Ok", val |-> pips]
             ELSE [ret |-> "HandOpError::ReturnShortHand", val |-> pips]

\* HandOpError::unwrap_pips: the pips of Ok and of ReturnShortHand; any other
\* error panics
unwrap_pips(pips) ==
    IF pips.ret \in {"Ok", "HandOpError::ReturnShortHand"}
    THEN [ret |-> "Ok", val |-> pips.val]
    ELSE [ret |-> "Panic", val |-> << >>]

\* Hand::is_held
Hand_is_held(hand, pos) ==
    IF ~(pos < DICE_NUM) THEN [ret |-> "HandOpError::OutOfPossibleRange", val |-> FALSE]
    ELSE IF pos + 1 <= Len(hand) THEN [ret |-> "Ok", val |-> hand[pos + 1].is_held]
    ELSE [ret |-> "Ok", val |-> FALSE]

\* is_held_all that never reports a fully held hand
Hand_is_held_all_never(hand) == [ret |-> "Ok", val |-> FALSE]

\* Hand::is_held_all (the TooBigHand branch needs more than DICE_NUM dice)
Hand_is_held_all(hand) ==
    IF ~(Len(hand) <= DICE_NUM) THEN [ret |-> "HandOpError::TooBigHand", val |-> FALSE]
    ELSE [ret |-> "Ok",
          val |-> Len(hand) = DICE_NUM /\ \A i \in 1..Len(hand) : hand[i].is_held]

\* Hand::hold that marks the die held whatever the flag asked for
Hand_hold_always(hand, pos, hold) ==
    IF ~(pos < DICE_NUM) THEN [hand |-> hand, ret |-> "HandOpError::OutOfPossibleRange"]
    ELSE IF pos + 1 <= Len(hand)
         THEN [hand |-> [hand EXCEPT ![pos + 1].is_held = TRUE], ret |-> "Ok"]
         ELSE [hand |-> hand, ret |-> "HandOpError::NoDie"]

\* Hand::hold
Hand_hold(hand, pos, hold) ==
    IF ~(pos < DICE_NUM) THEN [hand |-> hand, ret |-> "HandOpError::OutOfPossibleRange"]
    ELSE IF pos + 1 <= Len(hand)
         THEN [hand |-> [hand EXCEPT ![pos + 1].is_held = hold], ret |-> "Ok"]
         ELSE [hand |-> hand, ret |-> "HandOpError::NoDie"]

\* Hand::hold_all
Hand_hold_all(hand) ==
    IF ~(Len(hand) <= DICE_NUM) THEN [hand |-> hand, ret |-> "HandOpError::TooBigHand"]
    ELSE LET held == [i \in 1..Len(hand) |-> [hand[i] EXCEPT !.is_held = TRUE]]
         IN  [hand |-> held,
              ret |-> IF Hand_is_held_all(held).val THEN "Ok" ELSE "HandOpError::NotFullyFilled"]

\* fill_dice that puts the new dice in front of the dice that stayed
fill_dice_in_front(hand) ==
    IF ~(Len(hand) < DICE_NUM) THEN { [hand |-> hand, ret |-> "HandOpError::NoDiceToRoll"] }
    ELSE { [hand |-> new \o hand, ret |-> "Ok"] :
             new \in gen_n_dice(DICE_NUM - Len(hand)) }

\* Hand::fill_dice
fill_dice(hand) ==
    IF ~(Len(hand) < DICE_NUM) THEN { [hand |-> hand, ret |-> "HandOpError::NoDiceToRoll"] }
    ELSE { [hand |-> hand \o new, ret |-> "Ok"] :
             new \in gen_n_dice(DICE_NUM - Len(hand)) }

\* Hand::remove_dice: drop the dice that are not held
remove_dice(hand) == Filter(hand, [i \in 1..Len(hand) |-> hand[i].is_held])

\* Hand::reroll_dice
Hand_reroll_dice(hand) ==
    LET all == Hand_is_held_all(hand)
    IN  IF all.ret # "Ok" THEN { [hand |-> hand, ret |-> all.ret] }
        ELSE IF all.val THEN { [hand |-> hand, ret |-> "HandOpError::NoDiceToReroll"] }
        ELSE fill_dice(remove_dice(hand))

(***************************************************************************)
(* The three operations of Hand that play.rs calls and hand.rs no longer   *)
(* has, after the spec's section 4.1 (new_random, remove by mask, add).    *)
(***************************************************************************)
\* Hand::new_with_random_n_dice(n): a hand of exactly n new dice; fails if n > 5
new_with_random_n_dice(n) ==
    IF n > DICE_NUM THEN { [hand |-> Hand_new, ret |-> "HandOpError::OutOfPossibleRange"] }
    ELSE { [hand |-> h, ret |-> "Ok"] : h \in gen_n_dice(n) }

\* Hand::remove_dice(&removes): drop the dice whose mask entry is true, keeping
\* the order of the rest; mask entries beyond the hand are ignored
remove_dice_by_mask(hand, removes) ==
    Filter(hand, [i \in 1..Len(hand) |-> ~(i <= Len(removes) /\ removes[i])])

\* Hand::add_dice(&other): append; fails if the hand would exceed 5 dice
add_dice(hand, other) ==
    IF Len(hand) + Len(other) > DICE_NUM THEN [hand |-> hand, ret |-> "HandOpError::TooBigHand"]
    ELSE [hand |-> hand \o other, ret |-> "Ok"]

(***************************************************************************)
(* play.rs: PlayPhase and Play                                             *)
(***************************************************************************)
PhaseInit == [tag |-> "Init", count |-> 0]
PhaseRoll(n) == [tag |-> "Roll", count |-> n]
PhaseSelectOrReroll(n) == [tag |-> "SelectOrReroll", count |-> n]
PhaseSelect == [tag |-> "Select", count |-> 0]

\* Play::new
Play_new(player_id) ==
    [ player_id |-> player_id,
      hand      |-> Hand_new,
      is_held   |-> [i \in 1..DICE_NUM |-> FALSE],
      phase     |-> PhaseInit ]

\* Play::start_first_roll
start_first_roll(p) ==
    { [p EXCEPT !.hand = r.hand] : r \in new_with_random_n_dice(DICE_NUM) }

\* get_is_held_all with any() in place of all()
get_is_held_all_any(p) == \E i \in 1..DICE_NUM : p.is_held[i]

\* get_is_held_all that never reports a fully held hand
get_is_held_all_never(p) == FALSE

\* Play::get_is_held_all
get_is_held_all(p) == \A i \in 1..DICE_NUM : p.is_held[i]

\* Play::reroll_dice (the results of remove_dice and add_dice are dropped)
Play_reroll_dice(p) ==
    IF p.phase.tag = "Roll"
    THEN LET removes      == [i \in 1..DICE_NUM |-> ~p.is_held[i]]
             kept         == remove_dice_by_mask(p.hand, removes)
             reroll_dices == Cardinality({ i \in 1..DICE_NUM : removes[i] })
             rests        == DICE_NUM - reroll_dices
         IN  { [ play |-> [p EXCEPT !.hand = add_dice(kept, r.hand).hand,
                                    !.is_held = [i \in 1..DICE_NUM |-> (i - 1) < rests]],
                 ret |-> "Ok" ] :
               r \in new_with_random_n_dice(reroll_dices) }
    ELSE { [play |-> p, ret |-> "PlayPhaseError::DisAllowedRoll"] }

\* transition_phase whose SelectOrReroll arm forgets to count the roll
transition_phase_no_increment(p) ==
    CASE p.phase.tag = "Init" ->
           [ret |-> "Ok", phase |-> [tag |-> "Roll", count |-> INIT_ROLL_COUNT]]
      [] p.phase.tag = "Roll" ->
           IF p.phase.count \in INIT_ROLL_COUNT..(MAX_ROLL_COUNT - 1)
           THEN [ret |-> "Ok", phase |-> [tag |-> "SelectOrReroll", count |-> p.phase.count]]
           ELSE IF p.phase.count = MAX_ROLL_COUNT
           THEN [ret |-> "Ok", phase |-> [tag |-> "Select", count |-> 0]]
           ELSE [ret |-> "PlayPhaseError::UnexpectedRollCount", phase |-> p.phase]
      [] p.phase.tag = "SelectOrReroll" ->
           IF p.phase.count \in INIT_ROLL_COUNT..(MAX_ROLL_COUNT - 1)
           THEN IF \E i \in 1..DICE_NUM : ~p.is_held[i]
                THEN [ret |-> "Ok", phase |-> [tag |-> "Roll", count |-> p.phase.count]]
                ELSE [ret |-> "PlayPhaseError::NoDiceToRoll", phase |-> p.phase]
           ELSE [ret |-> "PlayPhaseError::UnexpectedRollCount", phase |-> p.phase]
      [] p.phase.tag = "Select" ->
           [ret |-> "PlayPhaseError::FinishedPlay", phase |-> p.phase]

\* transition_phase whose Roll arm tests the inclusive range
\* INIT_ROLL_COUNT..=MAX_ROLL_COUNT
transition_phase_inclusive(p) ==
    CASE p.phase.tag = "Init" ->
           [ret |-> "Ok", phase |-> [tag |-> "Roll", count |-> INIT_ROLL_COUNT]]
      [] p.phase.tag = "Roll" ->
           IF p.phase.count \in INIT_ROLL_COUNT..MAX_ROLL_COUNT
           THEN [ret |-> "Ok", phase |-> [tag |-> "SelectOrReroll", count |-> p.phase.count]]
           ELSE [ret |-> "PlayPhaseError::UnexpectedRollCount", phase |-> p.phase]
      [] p.phase.tag = "SelectOrReroll" ->
           IF p.phase.count \in INIT_ROLL_COUNT..(MAX_ROLL_COUNT - 1)
           THEN IF \E i \in 1..DICE_NUM : ~p.is_held[i]
                THEN [ret |-> "Ok", phase |-> [tag |-> "Roll", count |-> p.phase.count + 1]]
                ELSE [ret |-> "PlayPhaseError::NoDiceToRoll", phase |-> p.phase]
           ELSE [ret |-> "PlayPhaseError::UnexpectedRollCount", phase |-> p.phase]
      [] p.phase.tag = "Select" ->
           [ret |-> "PlayPhaseError::FinishedPlay", phase |-> p.phase]

\* Play::transition_phase
transition_phase(p) ==
    CASE p.phase.tag = "Init" ->
           [ret |-> "Ok", phase |-> PhaseRoll(INIT_ROLL_COUNT)]
      [] p.phase.tag = "Roll" ->
           IF p.phase.count \in INIT_ROLL_COUNT..(MAX_ROLL_COUNT - 1)
           THEN [ret |-> "Ok", phase |-> PhaseSelectOrReroll(p.phase.count)]
           ELSE IF p.phase.count = MAX_ROLL_COUNT
           THEN [ret |-> "Ok", phase |-> PhaseSelect]
           ELSE [ret |-> "PlayPhaseError::UnexpectedRollCount", phase |-> p.phase]
      [] p.phase.tag = "SelectOrReroll" ->
           IF p.phase.count \in INIT_ROLL_COUNT..(MAX_ROLL_COUNT - 1)
           THEN IF ~get_is_held_all(p)
                THEN [ret |-> "Ok", phase |-> PhaseRoll(p.phase.count + 1)]
                ELSE [ret |-> "PlayPhaseError::NoDiceToRoll", phase |-> p.phase]
           ELSE [ret |-> "PlayPhaseError::UnexpectedRollCount", phase |-> p.phase]
      [] p.phase.tag = "Select" ->
           [ret |-> "PlayPhaseError::FinishedPlay", phase |-> p.phase]

\* hold_all_dice that leaves the flags as they are
hold_all_dice_noop(p) == p

\* Play::hold_all_dice
hold_all_dice(p) == [p EXCEPT !.is_held = [i \in 1..DICE_NUM |-> TRUE]]

\* progress that holds all dice before it asks for the transition
progress_hold_first(p) ==
    LET h == hold_all_dice(p)
        t == transition_phase(p)
        q == [h EXCEPT !.phase = t.phase]
    IN  IF t.ret # "Ok" THEN { [play |-> h, ret |-> t.ret] }
        ELSE CASE q.phase.tag = "Roll" /\ q.phase.count = INIT_ROLL_COUNT ->
                    { [play |-> n, ret |-> "Ok"] : n \in start_first_roll(q) }
               [] q.phase.tag = "Roll" /\ q.phase.count # INIT_ROLL_COUNT ->
                    Play_reroll_dice([q EXCEPT !.is_held = p.is_held])
               [] OTHER ->
                    { [play |-> q, ret |-> "Ok"] }

\* Play::progress
progress(p) ==
    LET t == transition_phase(p)
        q == [p EXCEPT !.phase = t.phase]
    IN  IF t.ret # "Ok" THEN { [play |-> p, ret |-> t.ret] }
        ELSE CASE q.phase = PhaseRoll(INIT_ROLL_COUNT) ->
                    { [play |-> n, ret |-> "Ok"] : n \in start_first_roll(q) }
               [] q.phase.tag = "Roll" /\ q.phase # PhaseRoll(INIT_ROLL_COUNT) ->
                    Play_reroll_dice(q)
               [] q.phase.tag \in {"SelectOrReroll", "Select"} ->
                    { [play |-> hold_all_dice(q), ret |-> "Ok"] }
               [] OTHER ->
                    { [play |-> q, ret |-> "PlayPhaseError::UnexpectedPlayPhase"] }

\* Play::get_is_held: pos > 5 panics explicitly, pos = 5 on the index
get_is_held(p, pos) ==
    IF pos >= DICE_NUM THEN [ret |-> "Panic", val |-> FALSE]
    ELSE [ret |-> "Ok", val |-> p.is_held[pos + 1]]

\* Play::set_is_held: pos > 5 panics explicitly, pos = 5 on the index
set_is_held(p, pos, is_held) ==
    IF pos >= DICE_NUM THEN [play |-> p, ret |-> "Panic"]
    ELSE [play |-> [p EXCEPT !.is_held[pos + 1] = is_held], ret |-> "Ok"]

(***************************************************************************)
(* scoring.rs                                                              *)
(***************************************************************************)
sort_unstable(dice) == SortSeq(dice, LAMBDA a, b : a < b)

\* upper_section_scoring that returns the number of matching dice
upper_section_scoring_count(dice, spots) ==
    Cardinality({ i \in 1..Len(dice) : dice[i] = spots })

\* fn upper_section_scoring
upper_section_scoring(dice, spots) ==
    Cardinality({ i \in 1..Len(dice) : dice[i] = spots }) * spots

\* n_of_a_kind with the exclusive range 0..(DICE_NUM - n) of probed positions
n_of_a_kind_short_probe(dice, n) ==
    IF \E i \in 1..(DICE_NUM - n) :
          Cardinality({ j \in 1..Len(dice) : dice[j] = dice[i] }) >= n
    THEN SumSeq(dice)
    ELSE 0

\* fn n_of_a_kind: only the dice at positions 0..=(DICE_NUM - n) are probed
n_of_a_kind(dice, n) ==
    IF \E i \in 1..(DICE_NUM - n + 1) :
          Cardinality({ j \in 1..Len(dice) : dice[j] = dice[i] }) >= n
    THEN SumSeq(dice)
    ELSE 0

\* full_house without the test that the two faces differ
full_house_same_faces(dice) ==
    LET sorted_dice == sort_unstable(dice)
        init  == sorted_dice[1]
        end   == sorted_dice[DICE_NUM]
        case0 == << init, init, init, end, end >>
        case1 == << init, init, end, end, end >>
    IN  IF sorted_dice = case0 \/ sorted_dice = case1
        THEN FULL_HOUSE_SCORE
        ELSE 0

\* fn full_house
full_house(dice) ==
    LET sorted_dice == sort_unstable(dice)
        init  == sorted_dice[1]
        end   == sorted_dice[DICE_NUM]
        case0 == << init, init, init, end, end >>
        case1 == << init, init, end, end, end >>
    IN  IF init # end /\ (sorted_dice = case0 \/ sorted_dice = case1)
        THEN FULL_HOUSE_SCORE
        ELSE 0

\* the sorted sequence of the distinct members of a set of numbers
RECURSIVE SortedOfSet(_)
SortedOfSet(S) ==
    IF S = {} THEN << >>
    ELSE LET m == CHOOSE x \in S : \A y \in S : x <= y
         IN  << m >> \o SortedOfSet(S \ {m})

\* small_straight on the sorted dice, duplicates kept
small_straight_with_duplicates(dice) ==
    LET sorted_dice == sort_unstable(dice)
    IN  IF Len(sorted_dice) < 4 THEN 0
        ELSE IF \E i \in 0..(Len(sorted_dice) - 4) :
                   SubSeq(sorted_dice, i + 1, i + 4)
                     = [k \in 1..4 |-> sorted_dice[i + 1] + (k - 1)]
        THEN SMALL_STRAIGHT_SCORE
        ELSE 0

\* fn small_straight
small_straight(dice) ==
    LET unique_dice == { dice[i] : i \in 1..Len(dice) }
        sorted_dice == SortedOfSet(unique_dice)
    IN  IF Len(sorted_dice) < 4 THEN 0
        ELSE IF \E i \in 0..(Len(sorted_dice) - 4) :
                   SubSeq(sorted_dice, i + 1, i + 4)
                     = [k \in 1..4 |-> sorted_dice[i + 1] + (k - 1)]
        THEN SMALL_STRAIGHT_SCORE
        ELSE 0

\* large_straight that compares the first four sorted dice only
large_straight_of_four(dice) ==
    LET sorted_dice == sort_unstable(dice)
        init == sorted_dice[1]
    IN  IF SubSeq(sorted_dice, 1, 4) = [k \in 1..4 |-> init + (k - 1)]
        THEN LARGE_STRAIGHT_SCORE
        ELSE 0

\* fn large_straight
large_straight(dice) ==
    LET sorted_dice == sort_unstable(dice)
        init == sorted_dice[1]
    IN  IF sorted_dice = [k \in 1..DICE_NUM |-> init + (k - 1)]
        THEN LARGE_STRAIGHT_SCORE
        ELSE 0

\* yahtzee that compares the first four dice only
yahtzee_of_four(dice) ==
    IF SubSeq(dice, 1, 4) = [k \in 1..4 |-> dice[1]] THEN YAHTZEE_SCORE ELSE 0

\* fn yahtzee
yahtzee(dice) ==
    IF dice = [k \in 1..DICE_NUM |-> dice[1]] THEN YAHTZEE_SCORE ELSE 0

\* chance that leaves the last die out
chance_of_four(dice) == SumSeq(SubSeq(dice, 1, Len(dice) - 1))

\* fn chance
chance(dice) == SumSeq(dice)

\* fn scoring; -1 stands for the panic on a hand that has not DICE_NUM dice
scoring(b, dice) ==
    IF Len(dice) # DICE_NUM THEN -1
    ELSE CASE b = "Aces"          -> upper_section_scoring(dice, 1)
           [] b = "Twos"          -> upper_section_scoring(dice, 2)
           [] b = "Threes"        -> upper_section_scoring(dice, 3)
           [] b = "Fours"         -> upper_section_scoring(dice, 4)
           [] b = "Fives"         -> upper_section_scoring(dice, 5)
           [] b = "Sixes"         -> upper_section_scoring(dice, 6)
           [] b = "ThreeOfaAKind" -> n_of_a_kind(dice, 3)
           [] b = "FourOfaAKind"  -> n_of_a_kind(dice, 4)
           [] b = "FullHouse"     -> full_house(dice)
           [] b = "SmallStraight" -> small_straight(dice)
           [] b = "LargeStraight" -> large_straight(dice)
           [] b = "Yahtzee"       -> yahtzee(dice)
           [] b = "Chance"        -> chance(dice)

\* Sequence::next and Sequence::previous of enum Boxes (None past either end)
BoxIndex(b) == CHOOSE i \in 1..Len(Boxes) : Boxes[i] = b
Boxes_next(b) ==
    IF BoxIndex(b) < Len(Boxes) THEN Some(Boxes[BoxIndex(b) + 1]) ELSE None
Boxes_previous(b) ==
    IF BoxIndex(b) > 1 THEN Some(Boxes[BoxIndex(b) - 1]) ELSE None

(***************************************************************************)
(* score_table.rs: Record and ScoreTable                                   *)
(***************************************************************************)
\* Record::new
Record_new == None

\* Record::is_filled
is_filled(rec) == IsSome(rec)

\* Record::fill that overwrites a filled record
fill_overwrite(rec, score) == [rec |-> Some(score), ret |-> "Ok"]

\* Record::fill
fill(rec, score) ==
    IF is_filled(rec) THEN [rec |-> rec, ret |-> "RecordError::TryToFillFilledRecord"]
    ELSE [rec |-> Some(score), ret |-> "Ok"]

\* ScoreTable::new
ScoreTable_new == [b \in BoxSet |-> Record_new]

\* ScoreTable::get_score
get_score(t, b) == t[b]

\* ScoreTable::has_score_in
has_score_in(t, b) == is_filled(t[b])

\* has_all_scores with any() in place of all()
has_all_scores_any(t) == \E b \in BoxSet : is_filled(t[b])

\* ScoreTable::has_all_scores
has_all_scores(t) == \A b \in BoxSet : is_filled(t[b])

\* ScoreTable::get_num_filled_scores
get_num_filled_scores(t) == Cardinality({ b \in BoxSet : is_filled(t[b]) })

\* confirm_score that writes the score into every empty box of the table
confirm_score_every_open(t, b, score) ==
    [table |-> [c \in BoxSet |-> IF is_filled(t[c]) THEN t[c] ELSE Some(score)],
     ret   |-> fill(t[b], score).ret]

\* ScoreTable::confirm_score
confirm_score(t, b, score) ==
    LET r == fill(t[b], score)
    IN  [table |-> [t EXCEPT ![b] = r.rec], ret |-> r.ret]

\* ScoreTable::BONUS_TARGETS: the boxes of the upper section and their pips
BONUS_TARGETS ==
    << [box |-> "Aces", pip |-> 1], [box |-> "Twos", pip |-> 2],
       [box |-> "Threes", pip |-> 3], [box |-> "Fours", pip |-> 4],
       [box |-> "Fives", pip |-> 5], [box |-> "Sixes", pip |-> 6] >>

\* the factor of ScoreTable::BONUS_THRESHOLD: three dice of every face
PAR_COUNT == 3

\* ScoreTable::BONUS_THRESHOLD: (1 + 2 + 3 + 4 + 5 + 6) * 3
BONUS_THRESHOLD == SumSeq([i \in 1..Len(PIPS) |-> i]) * PAR_COUNT

\* ScoreTable::get_total_upper_score
get_total_upper_score(t) ==
    SumSeq([i \in 1..Len(BONUS_TARGETS) |->
              IF IsSome(get_score(t, BONUS_TARGETS[i].box))
              THEN Unwrap(get_score(t, BONUS_TARGETS[i].box)) ELSE 0])

\* table with a record of score at b in place of an unfilled one
filled_by_always(t, b, score) == [t EXCEPT ![b] = Some(score)]

\* the dummy_score_table of the three projections: a copy of the table in
\* which b, if it has no score, holds a record of score
filled_by(t, b, score) ==
    IF ~has_score_in(t, b) THEN [t EXCEPT ![b] = Some(score)] ELSE t

\* ScoreTable::get_total_upper_score_if_filled_by
get_total_upper_score_if_filled_by(t, b, score) ==
    get_total_upper_score(filled_by(t, b, score))

\* calculate_bonus that asks for more than the threshold
calculate_bonus_gt(t) ==
    LET current == get_total_upper_score(t)
        max == SumSeq([i \in 1..Len(BONUS_TARGETS) |->
                         IF has_score_in(t, BONUS_TARGETS[i].box)
                         THEN Unwrap(get_score(t, BONUS_TARGETS[i].box))
                         ELSE BONUS_TARGETS[i].pip * DICE_NUM])
    IN  IF current > BONUS_THRESHOLD THEN Some(BONUS_POINT)
        ELSE IF max >= BONUS_THRESHOLD THEN None
        ELSE Some(0)

\* calculate_bonus that reports no bonus as soon as the threshold is not met
calculate_bonus_early(t) ==
    IF get_total_upper_score(t) >= BONUS_THRESHOLD THEN Some(BONUS_POINT) ELSE Some(0)

\* ScoreTable::calculate_bonus
calculate_bonus(t) ==
    LET current == get_total_upper_score(t)
        max == SumSeq([i \in 1..Len(BONUS_TARGETS) |->
                         IF has_score_in(t, BONUS_TARGETS[i].box)
                         THEN Unwrap(get_score(t, BONUS_TARGETS[i].box))
                         ELSE BONUS_TARGETS[i].pip * DICE_NUM])
    IN  IF current >= BONUS_THRESHOLD THEN Some(BONUS_POINT)
        ELSE IF max >= BONUS_THRESHOLD THEN None
        ELSE Some(0)

\* calculate_bonus_if_filled_by that looks at the table as it is
calculate_bonus_if_filled_by_real(t, b, score) == calculate_bonus(t)

\* ScoreTable::calculate_bonus_if_filled_by
calculate_bonus_if_filled_by(t, b, score) ==
    calculate_bonus(filled_by(t, b, score))

\* get_total_score that leaves the bonus out
get_total_score_no_bonus(t) ==
    SumSeq([i \in 1..Len(Boxes) |->
              IF IsSome(get_score(t, Boxes[i])) THEN Unwrap(get_score(t, Boxes[i])) ELSE 0])

\* ScoreTable::get_total_score (the sum runs over the keys of the map, that is
\* over all boxes)
get_total_score(t) ==
    LET sum == SumSeq([i \in 1..Len(Boxes) |->
                         IF IsSome(get_score(t, Boxes[i]))
                         THEN Unwrap(get_score(t, Boxes[i])) ELSE 0])
        bonus == calculate_bonus(t)
    IN  sum + (IF IsSome(bonus) THEN Unwrap(bonus) ELSE 0)

\* ScoreTable::get_total_score_if_filled_by
get_total_score_if_filled_by(t, b, score) ==
    get_total_score(filled_by(t, b, score))

(***************************************************************************)
(* game_data.rs: GameData                                                  *)
(***************************************************************************)
\* GameData::new; the table of player pid is scores[pid + 1]
GameData_new(num_players) ==
    [ num_players |-> num_players,
      scores      |-> [i \in 1..num_players |-> ScoreTable_new] ]

\* GameData::get_score_table / get_mut_score_table: the table of the player,
\* and a panic for a player_id that is not below num_players (the guard) or
\* has no table in scores (the index)
get_score_table(g, player_id) ==
    IF player_id >= g.num_players \/ player_id >= Len(g.scores)
    THEN [ret |-> "Panic", table |-> << >>]
    ELSE [ret |-> "Ok", table |-> g.scores[player_id + 1]]

\* GameData::get_num_players
get_num_players(g) == g.num_players

\* current_player_id that compares with >= in place of >
current_player_id_ge(g) ==
    LET pid_to_filled_scores ==
            [i \in 1..Len(g.scores) |-> get_num_filled_scores(g.scores[i])]
        found == { i \in 1..(get_num_players(g) - 1) :
                     pid_to_filled_scores[i] >= pid_to_filled_scores[i + 1] }
    IN  IF found = {} THEN 0
        ELSE CHOOSE i \in found : \A j \in found : i <= j

\* current_player_id that takes the last index found in place of the first
current_player_id_last(g) ==
    LET pid_to_filled_scores ==
            [i \in 1..Len(g.scores) |-> get_num_filled_scores(g.scores[i])]
        found == { i \in 1..(get_num_players(g) - 1) :
                     pid_to_filled_scores[i] > pid_to_filled_scores[i + 1] }
    IN  IF found = {} THEN 0
        ELSE CHOOSE i \in found : \A j \in found : i >= j

\* current_player_id that always names the first player
current_player_id_first(g) == 0

\* GameData::current_player_id
current_player_id(g) ==
    LET pid_to_filled_scores ==
            [i \in 1..Len(g.scores) |-> get_num_filled_scores(g.scores[i])]
        found == { i \in 1..(get_num_players(g) - 1) :
                     pid_to_filled_scores[i] > pid_to_filled_scores[i + 1] }
    IN  IF found = {} THEN 0
        ELSE CHOOSE i \in found : \A j \in found : i <= j

(***************************************************************************)
(* app.rs: PlayCursorPos                                                   *)
(***************************************************************************)
CursorRoll == [kind |-> "Roll", pos |-> 0, box |-> "-"]
CursorHand(i) == [kind |-> "Hand", pos |-> i, box |-> "-"]
CursorDust(i) == [kind |-> "Dust", pos |-> i, box |-> "-"]
CursorTable(b) == [kind |-> "Table", pos |-> 0, box |-> b]
CursorDisappear == [kind |-> "Disappear", pos |-> 0, box |-> "-"]

(***************************************************************************)
(* app.rs: AppState and App.  An App value is the record                   *)
(* [state, start_sel, num_sel, play, cursor, game_data]; the payload of a  *)
(* variant of AppState that is not the current one is kept at the value    *)
(* its constructor gives it.  A handler yields the set of its outcomes     *)
(* [app, ret], ret being the AppReturn or "Panic".                         *)
(***************************************************************************)
\* App::new
App_new ==
    [ state     |-> "StartMenu",
      start_sel |-> "Play",
      num_sel   |-> LOWEST_PLAYER_ID,
      play      |-> None,
      cursor    |-> CursorDisappear,
      game_data |-> None ]

Back == 0

\* AppState::initialized_start_menu_state
initialized_start_menu_state(a) ==
    [a EXCEPT !.state = "StartMenu", !.start_sel = "Play",
              !.num_sel = LOWEST_PLAYER_ID, !.play = None, !.cursor = CursorDisappear]

\* AppState::initialized_select_num_players_state
initialized_select_num_players_state(a) ==
    [a EXCEPT !.state = "SelectNumPlayers", !.start_sel = "Play",
              !.num_sel = LOWEST_PLAYER_ID, !.play = None, !.cursor = CursorDisappear]

\* AppState::initialized_play_state
initialized_play_state(a) ==
    [a EXCEPT !.state = "Play", !.start_sel = "Play",
              !.num_sel = LOWEST_PLAYER_ID, !.play = None, !.cursor = CursorDisappear]

\* self.state = AppState::Result
result_state(a) ==
    [a EXCEPT !.state = "Result", !.start_sel = "Play",
              !.num_sel = LOWEST_PLAYER_ID, !.play = None, !.cursor = CursorDisappear]

\* AppState::get_play_data / get_mut_play_data: the result only
get_play_data(a) ==
    IF a.state = "Play"
    THEN (IF IsSome(a.play) THEN "Ok" ELSE "AppStateError::NoPlayData")
    ELSE "AppStateError::UnexpectedState"

\* initialize_play_data that gives every Play to the first player
initialize_play_data_first_player(a, player_id) ==
    IF a.state = "Play"
    THEN (IF IsNone(a.play)
          THEN [app |-> [a EXCEPT !.play = Some(Play_new(0))], ret |-> "Ok"]
          ELSE [app |-> a, ret |-> "AppStateError::ExistPlayData"])
    ELSE [app |-> a, ret |-> "AppStateError::UnexpectedState"]

\* AppState::initialize_play_data
initialize_play_data(a, player_id) ==
    IF a.state = "Play"
    THEN (IF IsNone(a.play)
          THEN [app |-> [a EXCEPT !.play = Some(Play_new(player_id))], ret |-> "Ok"]
          ELSE [app |-> a, ret |-> "AppStateError::ExistPlayData"])
    ELSE [app |-> a, ret |-> "AppStateError::UnexpectedState"]

\* cleanup_play_data that hides the cursor and keeps the Play
cleanup_play_data_keep(a) ==
    IF a.state = "Play"
    THEN [app |-> [a EXCEPT !.cursor = CursorDisappear], ret |-> "Ok"]
    ELSE [app |-> a, ret |-> "AppStateError::UnexpectedState"]

\* AppState::cleanup_play_data
cleanup_play_data(a) ==
    IF a.state = "Play"
    THEN [app |-> initialized_play_state(a), ret |-> "Ok"]
    ELSE [app |-> a, ret |-> "AppStateError::UnexpectedState"]

\* AppState::set_play_cursor_pos
set_play_cursor_pos(a, new_pos) ==
    IF a.state = "Play"
    THEN [app |-> [a EXCEPT !.cursor = new_pos], ret |-> "Ok"]
    ELSE [app |-> a, ret |-> "AppStateError::UnexpectedState"]

Continue(a) == [app |-> a, ret |-> "Continue"]
Exit(a) == [app |-> a, ret |-> "Exit"]
Panic(a) == [app |-> a, ret |-> "Panic"]

\* .unwrap() of a [app, ret] result, then return AppReturn::Continue
UnwrapContinue(r) == IF r.ret = "Ok" THEN Continue(r.app) ELSE Panic(r.app)

\* a helper result ("Ok" or "Panic") as the outcome of a handler that then
\* returns AppReturn::Continue
Handled(r) == IF r.ret = "Ok" THEN Continue(r.app) ELSE Panic(r.app)

\* App::do_action_in_start_menu
do_action_in_start_menu(a, ev) ==
    CASE ev = "Exit" -> { Exit(a) }
      [] ev = "Select" ->
           IF a.start_sel = "Play"
           THEN { Continue(initialized_select_num_players_state(a)) }
           ELSE { Exit(a) }
      [] ev \in {"Up", "Down"} ->
           { Continue([a EXCEPT !.start_sel =
                         IF a.start_sel = "Play" THEN "Exit" ELSE "Play"]) }
      [] OTHER -> { Continue(a) }

\* App::do_action_in_select_num_players
do_action_in_select_num_players(a, ev) ==
    CASE ev = "Exit" -> { Exit(a) }
      [] ev = "Select" ->
           IF a.num_sel # Back
           THEN { Continue([initialized_play_state(a) EXCEPT
                              !.game_data = Some(GameData_new(a.num_sel))]) }
           ELSE { Continue(initialized_start_menu_state(a)) }
      [] ev = "Up" ->
           IF a.num_sel # Back
           THEN (IF a.num_sel = LOWEST_PLAYER_ID
                 THEN { Continue([a EXCEPT !.num_sel = Back]) }
                 ELSE IF LOWEST_PLAYER_ID < a.num_sel /\ a.num_sel <= HIGHEST_PLAYER_ID
                 THEN { Continue([a EXCEPT !.num_sel = a.num_sel - 1]) }
                 ELSE { Panic(a) })
           ELSE { Continue([a EXCEPT !.num_sel = HIGHEST_PLAYER_ID]) }
      [] ev = "Down" ->
           IF a.num_sel # Back
           THEN (IF a.num_sel \in LOWEST_PLAYER_ID..(HIGHEST_PLAYER_ID - 1)
                 THEN { Continue([a EXCEPT !.num_sel = a.num_sel + 1]) }
                 ELSE IF a.num_sel = HIGHEST_PLAYER_ID
                 THEN { Continue([a EXCEPT !.num_sel = Back]) }
                 ELSE { Panic(a) })
           ELSE { Continue([a EXCEPT !.num_sel = LOWEST_PLAYER_ID]) }
      [] OTHER -> { Continue(a) }

\* App::do_action_in_no_play_data
do_action_in_no_play_data(a, ev) ==
    CASE ev = "Exit" -> { Exit(a) }
      [] OTHER ->
           LET pid == current_player_id(Unwrap(a.game_data))
               r1  == initialize_play_data(a, pid)
               r2  == set_play_cursor_pos(r1.app, CursorRoll)
           IN  IF r1.ret # "Ok" THEN { Panic(r1.app) } ELSE { UnwrapContinue(r2) }

\* App::do_action_in_init
do_action_in_init(a, ev) ==
    CASE ev = "Exit" -> { Exit(a) }
      [] ev = "Select" ->
           { UnwrapContinue([app |-> [a EXCEPT !.play = Some(r.play)], ret |-> r.ret]) :
               r \in progress(Unwrap(a.play)) }
      [] OTHER -> { Continue(a) }

\* move_cursor_pos_to_table that puts the cursor on the first box, filled or
\* not
move_cursor_pos_to_table_first_box(a) ==
    LET r == set_play_cursor_pos(a, CursorTable(Boxes[1]))
    IN  [app |-> r.app, ret |-> IF r.ret = "Ok" THEN "Ok" ELSE "Panic"]

\* App::move_cursor_pos_to_table: the cursor goes to the first box without a
\* score in the table of the Play's player, and stays if there is none; the
\* result is "Ok" or "Panic" (get_score_table, the unwrap of
\* set_play_cursor_pos)
move_cursor_pos_to_table(a) ==
    LET pid  == Unwrap(a.play).player_id
        t    == get_score_table(Unwrap(a.game_data), pid)
        open == { i \in 1..Len(Boxes) : ~has_score_in(t.table, Boxes[i]) }
        r    == set_play_cursor_pos(
                    a, CursorTable(Boxes[CHOOSE i \in open : \A j \in open : i <= j]))
    IN  IF t.ret # "Ok" THEN [app |-> a, ret |-> "Panic"]
        ELSE IF open = {} THEN [app |-> a, ret |-> "Ok"]
        ELSE [app |-> r.app, ret |-> IF r.ret = "Ok" THEN "Ok" ELSE "Panic"]

\* App::do_action_in_roll
do_action_in_roll(a, ev) ==
    CASE ev = "Exit" -> { Exit(a) }
      [] ev = "Select" ->
           { IF r.ret # "Ok" THEN Panic([a EXCEPT !.play = Some(r.play)])
             ELSE LET b == [a EXCEPT !.play = Some(r.play)]
                  IN  CASE r.play.phase.tag = "SelectOrReroll" ->
                             UnwrapContinue(set_play_cursor_pos(b, CursorHand(0)))
                        [] r.play.phase.tag = "Select" ->
                             Handled(move_cursor_pos_to_table(b))
                        [] OTHER -> Panic(b) :
             r \in progress(Unwrap(a.play)) }
      [] OTHER ->
           { UnwrapContinue(
                 [app |-> [a EXCEPT !.play = Some([Unwrap(a.play) EXCEPT !.hand = r.hand])],
                  ret |-> r.ret]) :
               r \in Hand_reroll_dice(Unwrap(a.play).hand) }

\* the loop of App::up_action_in_score_table, from pos
RECURSIVE up_scan(_, _, _)
up_scan(a, init_pos, pos) ==
    LET prv  == Boxes_previous(pos)
        prev == IF IsSome(prv) THEN Unwrap(prv) ELSE Boxes[Len(Boxes)]
        pid  == Unwrap(a.play).player_id
        t    == get_score_table(Unwrap(a.game_data), pid)
        has_score == has_score_in(t.table, prev)
    IN  IF t.ret # "Ok" THEN [app |-> a, ret |-> "Panic"]
        ELSE IF ~has_score \/ prev = init_pos
        THEN set_play_cursor_pos(a, CursorTable(prev))
        ELSE up_scan(a, init_pos, prev)

\* App::up_action_in_score_table
up_action_in_score_table(a) ==
    IF a.cursor.kind = "Table"
    THEN up_scan(a, a.cursor.box, a.cursor.box)
    ELSE [app |-> a, ret |-> "Panic"]

\* the loop of App::down_action_in_score_table, from pos
RECURSIVE down_scan(_, _, _)
down_scan(a, init_pos, pos) ==
    LET nxt  == Boxes_next(pos)
        next == IF IsSome(nxt) THEN Unwrap(nxt) ELSE Boxes[1]
        pid  == Unwrap(a.play).player_id
        t    == get_score_table(Unwrap(a.game_data), pid)
        has_score == has_score_in(t.table, next)
    IN  IF t.ret # "Ok" THEN [app |-> a, ret |-> "Panic"]
        ELSE IF ~has_score \/ next = init_pos
        THEN set_play_cursor_pos(a, CursorTable(next))
        ELSE down_scan(a, init_pos, next)

\* App::down_action_in_score_table
down_action_in_score_table(a) ==
    IF a.cursor.kind = "Table"
    THEN down_scan(a, a.cursor.box, a.cursor.box)
    ELSE [app |-> a, ret |-> "Panic"]

\* App::confirm_score_action (the Result of confirm_score is dropped)
confirm_score_action(a) ==
    IF a.cursor.kind = "Table"
    THEN LET pos == a.cursor.box
             p   == Unwrap(a.play)
             pid == p.player_id
             g   == Unwrap(a.game_data)
             st  == get_score_table(g, pid)
         IN  IF st.ret # "Ok" THEN [app |-> a, ret |-> "Panic"]
             ELSE IF ~has_score_in(st.table, pos)
             THEN LET dice  == unwrap_pips(get_pips(p.hand))
                      score == scoring(pos, dice.val)
                      g2    == [g EXCEPT !.scores[pid + 1] =
                                  confirm_score(st.table, pos, score).table]
                      next_pid == (pid + 1) % get_num_players(g2)
                      next_score_table == get_score_table(g2, next_pid)
                      c     == cleanup_play_data([a EXCEPT !.game_data = Some(g2)])
                  IN  IF dice.ret # "Ok" THEN [app |-> a, ret |-> "Panic"]
                      ELSE IF score < 0 THEN [app |-> a, ret |-> "Panic"]
                      ELSE IF c.ret # "Ok" THEN [app |-> c.app, ret |-> "Panic"]
                      ELSE IF next_score_table.ret # "Ok"
                      THEN [app |-> c.app, ret |-> "Panic"]
                      ELSE IF ~has_all_scores(next_score_table.table)
                      THEN set_play_cursor_pos(c.app, CursorRoll)
                      ELSE [app |-> result_state(c.app), ret |-> "Ok"]
             ELSE [app |-> a, ret |-> "Ok"]
    ELSE [app |-> a, ret |-> "Panic"]

\* App::do_action_in_select_or_reroll
do_action_in_select_or_reroll(a, ev) ==
    LET p == Unwrap(a.play)
        k == a.cursor.kind
    IN
    CASE ev = "Exit" -> { Exit(a) }
      [] ev = "Select" ->
           (CASE k = "Roll" ->
                  \* an error of progress() is ignored only if it downcasts to
                  \* HandOpError::NoDiceToRoll; anything else panics
                  { IF r.ret \in {"Ok", "HandOpError::NoDiceToRoll"}
                    THEN Continue([a EXCEPT !.play = Some(r.play)])
                    ELSE Panic([a EXCEPT !.play = Some(r.play)]) :
                    r \in progress(p) }
             [] k \in {"Hand", "Dust"} ->
                  LET h == Hand_is_held(p.hand, a.cursor.pos)
                      r == Hand_hold(p.hand, a.cursor.pos, ~h.val)
                  IN  IF h.ret # "Ok" THEN { Panic(a) }
                      ELSE IF r.ret # "Ok" THEN { Panic(a) }
                      ELSE { Continue([a EXCEPT !.play = Some([p EXCEPT !.hand = r.hand])]) }
             [] k = "Table" -> { Handled(confirm_score_action(a)) }
             [] OTHER -> { Continue(a) })
      [] ev = "Left" ->
           (CASE k \in {"Hand", "Dust"} ->
                  IF a.cursor.pos > 0
                  THEN { UnwrapContinue(set_play_cursor_pos(
                             a, [a.cursor EXCEPT !.pos = a.cursor.pos - 1])) }
                  ELSE { Continue(a) }
             [] k = "Table" ->
                  { UnwrapContinue(set_play_cursor_pos(a, CursorHand(DICE_NUM - 1))) }
             [] OTHER -> { Continue(a) })
      [] ev = "Right" ->
           (CASE k = "Roll" -> { Handled(move_cursor_pos_to_table(a)) }
             [] k \in {"Hand", "Dust"} ->
                  LET new_pos == a.cursor.pos + 1
                  IN  IF new_pos < DICE_NUM
                      THEN { UnwrapContinue(set_play_cursor_pos(
                                 a, [a.cursor EXCEPT !.pos = new_pos])) }
                      ELSE { Handled(move_cursor_pos_to_table(a)) }
             [] OTHER -> { Continue(a) })
      [] ev = "Up" ->
           (CASE k = "Hand" ->
                  LET h == Hand_is_held_all(p.hand)
                  IN  IF h.ret # "Ok" THEN { Panic(a) }
                      ELSE IF ~h.val
                      THEN { UnwrapContinue(set_play_cursor_pos(a, CursorRoll)) }
                      ELSE { Continue(a) }
             [] k = "Dust" ->
                  { UnwrapContinue(set_play_cursor_pos(a, CursorHand(a.cursor.pos))) }
             [] k = "Table" -> { Handled(up_action_in_score_table(a)) }
             [] OTHER -> { Continue(a) })
      [] ev = "Down" ->
           (CASE k = "Roll" -> { UnwrapContinue(set_play_cursor_pos(a, CursorHand(0))) }
             [] k = "Hand" ->
                  { UnwrapContinue(set_play_cursor_pos(a, CursorDust(a.cursor.pos))) }
             [] k = "Table" -> { Handled(down_action_in_score_table(a)) }
             [] OTHER -> { Continue(a) })
      [] OTHER -> { Continue(a) }

\* App::do_action_in_select
do_action_in_select(a, ev) ==
    CASE ev = "Exit" -> { Exit(a) }
      [] ev = "Select" -> { Handled(confirm_score_action(a)) }
      [] ev = "Up" -> { Handled(up_action_in_score_table(a)) }
      [] ev = "Down" -> { Handled(down_action_in_score_table(a)) }
      [] OTHER -> { Continue(a) }

\* App::do_action_in_result
do_action_in_result(a, ev) ==
    CASE ev = "Exit" -> { Exit(a) }
      [] ev = "Select" -> { Exit(a) }
      [] OTHER -> { Continue(a) }

\* App::do_action_in_play
do_action_in_play(a, ev) ==
    LET e == get_play_data(a)
    IN  CASE e = "Ok" ->
               LET tag == Unwrap(a.play).phase.tag
               IN  (CASE tag = "Init" -> do_action_in_init(a, ev)
                      [] tag = "Roll" -> do_action_in_roll(a, ev)
                      [] tag = "SelectOrReroll" -> do_action_in_select_or_reroll(a, ev)
                      [] tag = "Select" -> do_action_in_select(a, ev))
          [] e = "AppStateError::NoPlayData" -> do_action_in_no_play_data(a, ev)
          [] OTHER -> { Panic(a) }

\* App::do_action
do_action(a, ev) ==
    CASE a.state = "StartMenu" -> do_action_in_start_menu(a, ev)
      [] a.state = "SelectNumPlayers" -> do_action_in_select_num_players(a, ev)
      [] a.state = "Play" -> do_action_in_play(a, ev)
      [] a.state = "Result" -> do_action_in_result(a, ev)

(***************************************************************************)
(* PlaySpec: one Play driven through its public methods by any caller.     *)
(* A panic ends the program: nothing is called after it.                   *)
(***************************************************************************)
Faces == 1..NumFaces

\* the one face of a loaded die (an index of PIPS)
Loaded == 1

PlayInit ==
    /\ state = "Play"
    /\ start_sel = "Play"
    /\ num_sel = LOWEST_PLAYER_ID
    /\ play = Some(Play_new(0))
    /\ cursor = CursorDisappear
    /\ game_data = None
    /\ rng = Faces
    /\ op = "new"
    /\ ret = "Ok"

AppUnchanged == UNCHANGED <<state, start_sel, num_sel, cursor, game_data, rng>>

Running == ret # "Panic" /\ ret # "Exit"

\* the caller drops the Play and constructs the one of the next turn
CallNew ==
    /\ Running
    /\ play' = Some(Play_new(0))
    /\ op' = "new"
    /\ ret' = "Ok"
    /\ AppUnchanged

CallProgress ==
    /\ Running
    /\ \E r \in progress(Unwrap(play)) :
         /\ play' = Some(r.play)
         /\ ret' = r.ret
    /\ op' = "progress"
    /\ AppUnchanged

CallRerollDice ==
    /\ Running
    /\ \E r \in Play_reroll_dice(Unwrap(play)) :
         /\ play' = Some(r.play)
         /\ ret' = r.ret
    /\ op' = "reroll_dice"
    /\ AppUnchanged

CallSetIsHeld ==
    /\ Running
    /\ \E pos \in 0..DICE_NUM, is_held \in BOOLEAN :
         LET r == set_is_held(Unwrap(play), pos, is_held)
         IN  /\ play' = Some(r.play)
             /\ ret' = r.ret
    /\ op' = "set_is_held"
    /\ AppUnchanged

CallHoldAllDice ==
    /\ Running
    /\ play' = Some(hold_all_dice(Unwrap(play)))
    /\ op' = "hold_all_dice"
    /\ ret' = "Ok"
    /\ AppUnchanged

PlayNext ==
    \/ CallNew
    \/ CallProgress
    \/ CallRerollDice
    \/ CallSetIsHeld
    \/ CallHoldAllDice

PlaySpec == PlayInit /\ [][PlayNext]_vars

(***************************************************************************)
(* Properties of Play, checked under PlaySpec                              *)
(***************************************************************************)
ThePlay == Unwrap(play)
\* the pips of a hand, in order
PipsOf(hand) == [i \in 1..Len(hand) |-> hand[i].pip]
ThePlayAfter == Unwrap(play')

SomeUnheld(p) == \E i \in 1..DICE_NUM : ~p.is_held[i]

\* the edges of the transition table, as the specification lists them
LegalEdge(p) ==
    \/ p.phase.tag = "Init"
    \/ p.phase.tag = "Roll" /\ p.phase.count \in {1, 2, 3}
    \/ p.phase.tag = "SelectOrReroll" /\ p.phase.count \in {1, 2} /\ SomeUnheld(p)

EdgeTarget(p) ==
    CASE p.phase.tag = "Init" -> [tag |-> "Roll", count |-> 1]
      [] p.phase.tag = "Roll" /\ p.phase.count \in {1, 2} ->
           [tag |-> "SelectOrReroll", count |-> p.phase.count]
      [] p.phase.tag = "Roll" /\ p.phase.count = 3 -> [tag |-> "Select", count |-> 0]
      [] p.phase.tag = "SelectOrReroll" -> [tag |-> "Roll", count |-> p.phase.count + 1]
      [] OTHER -> p.phase

\* C1: progress() returns Ok exactly on the edges Init -> Roll(1),
\* Roll(n) -> SelectOrReroll(n) for n in {1,2}, Roll(3) -> Select and
\* SelectOrReroll(n) -> Roll(n+1) for n in {1,2} with a die unheld, and then the
\* phase is the target of the edge; in every other case it returns an error and
\* the phase stays.
C1_ProgressEdges ==
    [][ op' = "progress" =>
          /\ (ret' = "Ok") <=> LegalEdge(ThePlay)
          /\ ret' = "Ok" => ThePlayAfter.phase = EdgeTarget(ThePlay)
          /\ ret' # "Ok" => ThePlayAfter.phase = ThePlay.phase ]_vars

\* a successful progress() out of SelectOrReroll(1) with exactly one die unheld
C1_Witness ==
    /\ op = "progress" /\ ret = "Ok"
    /\ ThePlay.phase = [tag |-> "Roll", count |-> 2]
    /\ Cardinality({ i \in 1..DICE_NUM : ThePlay.is_held[i] }) = DICE_NUM - 1

InRoll3OrSelect(p) ==
    \/ p.phase.tag = "Roll" /\ p.phase.count = MAX_ROLL_COUNT
    \/ p.phase.tag = "Select"

\* C6 as claimed: in Roll(3) and in Select every attempt to roll again,
\* progress() from Select or reroll_dice() in either phase, fails and leaves
\* the dice as they are.
C6_Original ==
    [][ ( \/ op' = "progress" /\ ThePlay.phase.tag = "Select"
          \/ op' = "reroll_dice" /\ InRoll3OrSelect(ThePlay) )
        => ret' # "Ok" /\ ThePlayAfter.hand = ThePlay.hand ]_vars

\* C7: progress() from SelectOrReroll(n), n in {1,2}, with all five dice held
\* returns the error NoDiceToRoll and leaves the Play (phase, hand, held flags)
\* as it was.
C7_NoDiceToRoll ==
    [][ ( /\ op' = "progress"
          /\ ThePlay.phase.tag = "SelectOrReroll"
          /\ ThePlay.phase.count \in {1, 2}
          /\ ~SomeUnheld(ThePlay) )
        => ret' = "PlayPhaseError::NoDiceToRoll" /\ ThePlayAfter = ThePlay ]_vars

\* progress() has just failed in SelectOrReroll(2) with every die held
C7_Witness ==
    /\ op = "progress" /\ ret = "PlayPhaseError::NoDiceToRoll"
    /\ ThePlay.phase = [tag |-> "SelectOrReroll", count |-> 2]
    /\ ~SomeUnheld(ThePlay)

\* the rolls a phase stands for: none in Init, n in Roll(n) and
\* SelectOrReroll(n), all three in Select
RollsDone(phase) ==
    CASE phase.tag = "Init" -> 0
      [] phase.tag = "Select" -> MAX_ROLL_COUNT
      [] OTHER -> phase.count

\* C8: within one Play the roll count never decreases under any call, a step
\* from SelectOrReroll(n) to Roll raises it by exactly one, and it is lower
\* after a step only when that step constructed a new Play (in Init).
C8_RollCountMonotone ==
    [][ /\ op' # "new" => RollsDone(ThePlayAfter.phase) >= RollsDone(ThePlay.phase)
        /\ (ThePlay.phase.tag = "SelectOrReroll" /\ ThePlayAfter.phase.tag = "Roll")
             => ThePlayAfter.phase.count = ThePlay.phase.count + 1
        /\ RollsDone(ThePlayAfter.phase) < RollsDone(ThePlay.phase)
             => op' = "new" /\ ThePlayAfter.phase.tag = "Init" ]_vars

\* the third roll has been reached by a progress() out of SelectOrReroll(2)
C8_Witness ==
    /\ op = "progress" /\ ret = "Ok"
    /\ ThePlay.phase = [tag |-> "Roll", count |-> 3]

\* C9: in Select progress() fails with FinishedPlay and leaves the Play as it
\* was, and no call other than the construction of the next Play changes the
\* phase.
C9_SelectTerminal ==
    [][ ThePlay.phase.tag = "Select" =>
          /\ op' = "progress"
               => ret' = "PlayPhaseError::FinishedPlay" /\ ThePlayAfter = ThePlay
          /\ op' # "new" => ThePlayAfter.phase = ThePlay.phase ]_vars

\* progress() has just failed in Select on a Play with a die not held
C9_Witness ==
    /\ op = "progress" /\ ret = "PlayPhaseError::FinishedPlay"
    /\ ThePlay.phase.tag = "Select"
    /\ SomeUnheld(ThePlay)

\* C10 as claimed: set_is_held() called in Init, Roll(n) or Select changes no
\* held flag.
C10_Original ==
    [][ (op' = "set_is_held" /\ ThePlay.phase.tag \in {"Init", "Roll", "Select"})
        => ThePlayAfter.is_held = ThePlay.is_held ]_vars


(***************************************************************************)
(* The App as main.rs runs it: App::new, then one do_action per event      *)
(* until a handler returns Exit or panics.                                 *)
(***************************************************************************)
\* the App held in the variables
app ==
    [ state     |-> state,
      start_sel |-> start_sel,
      num_sel   |-> num_sel,
      play      |-> play,
      cursor    |-> cursor,
      game_data |-> game_data ]

AppIs(a) ==
    /\ state = a.state
    /\ start_sel = a.start_sel
    /\ num_sel = a.num_sel
    /\ play = a.play
    /\ cursor = a.cursor
    /\ game_data = a.game_data

\* one call of App::do_action, as TuiYatzee::start makes it for every event
Event(ev) ==
    /\ Running
    /\ \E r \in do_action(app, ev) :
         /\ state' = r.app.state
         /\ start_sel' = r.app.start_sel
         /\ num_sel' = r.app.num_sel
         /\ play' = r.app.play
         /\ cursor' = r.app.cursor
         /\ game_data' = r.app.game_data
         /\ ret' = r.ret
    /\ op' = "do_action"
    /\ UNCHANGED rng

\* the number of scores confirmed so far in the game
TotalFilled ==
    IF IsNone(game_data) THEN 0
    ELSE SumSeq([i \in 1..Len(Unwrap(game_data).scores) |->
                   get_num_filled_scores(Unwrap(game_data).scores[i])])

\* a game is started for at most MaxPlayers players
WithinMaxPlayers(ev) ==
    ~(state = "SelectNumPlayers" /\ ev = "Select" /\ num_sel > MaxPlayers)

\* no turn is started after MaxTurns turns
WithinMaxTurns(ev) ==
    ~(state = "Play" /\ IsNone(play) /\ ev # "Exit" /\ TotalFilled >= MaxTurns)

\* the player leaves the cursor on the first open box of the table
FirstOpenBox(ev) ==
    ~(state = "Play" /\ cursor.kind = "Table" /\ ev \in {"Up", "Down"})

\* the App after App::new, with dice that only show the faces in faces
InitWith(faces) ==
    /\ AppIs(App_new)
    /\ rng = faces
    /\ op = "new"
    /\ ret = "Continue"

(***************************************************************************)
(* Spec: every event, in games of at most MaxPlayers players, for the      *)
(* first MaxTurns turns, with dice that all show the face Loaded.          *)
(***************************************************************************)
Init == InitWith({Loaded})

StartMenuEvent == \E ev \in Actions : state = "StartMenu" /\ Event(ev)

SelectNumPlayersEvent ==
    \E ev \in Actions :
      state = "SelectNumPlayers" /\ WithinMaxPlayers(ev) /\ Event(ev)

PlayEvent ==
    \E ev \in Actions : state = "Play" /\ WithinMaxTurns(ev) /\ Event(ev)

Next ==
    \/ StartMenuEvent
    \/ SelectNumPlayersEvent
    \/ PlayEvent

Spec == Init /\ [][Next]_vars

(***************************************************************************)
(* GameSpec: whole games of at most MaxPlayers players, with dice that all *)
(* show the face Loaded, in which the player never moves the cursor inside *)
(* the table: every score goes to the first open box.                      *)
(***************************************************************************)
GamePlayEvent ==
    \E ev \in Actions : state = "Play" /\ FirstOpenBox(ev) /\ Event(ev)

ResultEvent == \E ev \in Actions : state = "Result" /\ Event(ev)

GameNext ==
    \/ StartMenuEvent
    \/ SelectNumPlayersEvent
    \/ GamePlayEvent
    \/ ResultEvent

GameSpec == Init /\ [][GameNext]_vars

(***************************************************************************)
(* TurnSpec: every event and every roll of the first turn of a game, with  *)
(* dice that show any of the faces in Faces.                               *)
(***************************************************************************)
TurnInit == InitWith(Faces)

FirstTurn(ev) ==
    ~(state = "Play" /\ IsNone(play) /\ ev # "Exit" /\ TotalFilled >= 1)

TurnPlayEvent ==
    \E ev \in Actions : state = "Play" /\ FirstTurn(ev) /\ Event(ev)

TurnNext ==
    \/ StartMenuEvent
    \/ SelectNumPlayersEvent
    \/ TurnPlayEvent

TurnSpec == TurnInit /\ [][TurnNext]_vars

(***************************************************************************)
(* TableSpec: one ScoreTable under every sequence of confirm_score calls,  *)
(* with scores in 0..MaxScore, until MaxFilled boxes are filled; calls on  *)
(* a filled box go on after that.  The table is that of the one player of  *)
(* game_data, and cursor holds the box the last call named.                *)
(***************************************************************************)
MaxScore == 1

MaxFilled == 3

TheTable == Unwrap(game_data).scores[1]
TheTableAfter == Unwrap(game_data').scores[1]

TableInit ==
    /\ state = "Play"
    /\ start_sel = "Play"
    /\ num_sel = LOWEST_PLAYER_ID
    /\ play = None
    /\ cursor = CursorDisappear
    /\ game_data = Some(GameData_new(1))
    /\ rng = {Loaded}
    /\ op = "new"
    /\ ret = "Ok"

CallConfirmScore ==
    \E b \in BoxSet, score \in 0..MaxScore :
      /\ has_score_in(TheTable, b) \/ get_num_filled_scores(TheTable) < MaxFilled
      /\ LET r == confirm_score(TheTable, b, score)
         IN  /\ game_data' = Some([Unwrap(game_data) EXCEPT !.scores[1] = r.table])
             /\ ret' = r.ret
      /\ cursor' = CursorTable(b)
      /\ op' = "confirm_score"
      /\ UNCHANGED <<state, start_sel, num_sel, play, rng>>

TableNext == CallConfirmScore

TableSpec == TableInit /\ [][TableNext]_vars

(***************************************************************************)
(* Properties of the score table and of the game                           *)
(***************************************************************************)
TheGame == Unwrap(game_data)
TheGameAfter == Unwrap(game_data')

\* the number of filled boxes of a table, counted on the records
FilledIn(t) == Cardinality({ b \in BoxSet : Len(t[b]) = 1 })

\* box b of player i holds after the step a score it did not hold before
Committed(i, b) ==
    /\ IsSome(game_data')
    /\ i \in 1..Len(TheGameAfter.scores)
    /\ Len(TheGameAfter.scores[i][b]) = 1
    /\ \/ IsNone(game_data)
       \/ i > Len(TheGame.scores)
       \/ TheGame.scores[i][b] # TheGameAfter.scores[i][b]

\* C2: a box receives a score only in a step taken with a Play in
\* SelectOrReroll or Select and the cursor on that box, the box being empty in
\* the table of the Play's player; the score is scoring(box, pips of the hand),
\* no other record of any table changes, and the Play is gone after the step.
C2_CommitSequence ==
    [][ game_data' # game_data =>
        \A i \in 1..HIGHEST_PLAYER_ID, b \in BoxSet :
          Committed(i, b) =>
            /\ IsSome(game_data) /\ IsSome(play)
            /\ ThePlay.phase.tag \in {"SelectOrReroll", "Select"}
            /\ cursor = [kind |-> "Table", pos |-> 0, box |-> b]
            /\ i = ThePlay.player_id + 1
            /\ TheGame.scores[i][b] = <<>>
            /\ TheGameAfter.scores[i][b] = <<scoring(b, PipsOf(ThePlay.hand))>>
            /\ TheGameAfter = [TheGame EXCEPT !.scores[i][b] = TheGameAfter.scores[i][b]]
            /\ play' = <<>> ]_vars

\* the first turn ended with a pair of twos scored in Twos
C2_Witness ==
    /\ state = "Play" /\ op = "do_action" /\ ret = "Continue"
    /\ play = <<>>
    /\ IsSome(game_data)
    /\ TheGame.scores[1]["Twos"] = <<4>>

\* C3: while a game is on or has ended, the App is in Result exactly when every
\* box of every player's table is filled.
C3_ResultIffAllFull ==
    (state \in {"Play", "Result"} /\ IsSome(game_data)) =>
      ( state = "Result" <=>
          \A i \in 1..Len(TheGame.scores) : FilledIn(TheGame.scores[i]) = 13 )

\* a game of two players has ended
C3_Witness ==
    /\ state = "Result"
    /\ IsSome(game_data)
    /\ Len(TheGame.scores) = 2
    /\ \A i \in 1..2 : FilledIn(TheGame.scores[i]) = 13

\* C4: after the commit of player p that does not end the game
\* current_player_id() is (p + 1) mod num_players, and it is 0 in a game in
\* which no score has been committed.
C4_NextPlayer ==
    [][ /\ ( /\ state' = "Play"
             /\ IsSome(play)
             /\ \E i \in 1..HIGHEST_PLAYER_ID, b \in BoxSet : Committed(i, b) )
          => current_player_id(TheGameAfter)
               = (ThePlay.player_id + 1) % TheGameAfter.num_players
        /\ ( /\ state' = "Play"
             /\ IsSome(game_data')
             /\ \A i \in 1..Len(TheGameAfter.scores) : FilledIn(TheGameAfter.scores[i]) = 0 )
          => current_player_id(TheGameAfter) = 0 ]_vars

\* between two turns of a game of two players, the second player is next
\* and the first has filled two boxes
C4_Witness ==
    /\ state = "Play" /\ play = <<>> /\ IsSome(game_data)
    /\ Len(TheGame.scores) = 2
    /\ FilledIn(TheGame.scores[1]) = 2
    /\ FilledIn(TheGame.scores[2]) = 1
    /\ current_player_id(TheGame) = 1

\* C5: confirm_score on a filled box returns the error
\* TryToFillFilledRecord and leaves the table as it was, and no call changes
\* the score of a filled box.
C5_FilledOnce ==
    [][ op' = "confirm_score" =>
          /\ Len(TheTable[cursor'.box]) = 1
               => /\ ret' = "RecordError::TryToFillFilledRecord"
                  /\ TheTableAfter = TheTable
          /\ \A b \in BoxSet : Len(TheTable[b]) = 1 => TheTableAfter[b] = TheTable[b] ]_vars

\* a call on the filled box Aces, with another score, has just been refused
C5_Witness ==
    /\ op = "confirm_score" /\ ret = "RecordError::TryToFillFilledRecord"
    /\ cursor = [kind |-> "Table", pos |-> 0, box |-> "Aces"]
    /\ TheTable["Aces"] = <<0>>
    /\ FilledIn(TheTable) = 2

(***************************************************************************)
(* HandSpec: the Hand of a Play under every sequence of the public calls   *)
(* of Hand, reached through Play::get_mut_hand as the App does, with dice  *)
(* that show any of the faces in Faces.  cursor holds the position the     *)
(* last call of hold named, and op tells the flag it passed.               *)
(***************************************************************************)
TheHand == Unwrap(play).hand
TheHandAfter == Unwrap(play').hand

HandUnchanged == UNCHANGED <<state, start_sel, num_sel, game_data, rng>>

CallHandNew ==
    /\ play' = Some([Unwrap(play) EXCEPT !.hand = Hand_new])
    /\ op' = "Hand::new"
    /\ ret' = "Ok"
    /\ UNCHANGED cursor
    /\ HandUnchanged

CallHandRerollDice ==
    /\ \E r \in Hand_reroll_dice(TheHand) :
         /\ play' = Some([Unwrap(play) EXCEPT !.hand = r.hand])
         /\ ret' = r.ret
    /\ op' = "Hand::reroll_dice"
    /\ UNCHANGED cursor
    /\ HandUnchanged

CallHandHold ==
    /\ \E pos \in 0..DICE_NUM, hold \in BOOLEAN :
         LET r == Hand_hold(TheHand, pos, hold)
         IN  /\ play' = Some([Unwrap(play) EXCEPT !.hand = r.hand])
             /\ ret' = r.ret
             /\ cursor' = CursorHand(pos)
             /\ op' = IF hold THEN "Hand::hold(true)" ELSE "Hand::hold(false)"
    /\ HandUnchanged

CallHandHoldAll ==
    /\ LET r == Hand_hold_all(TheHand)
       IN  /\ play' = Some([Unwrap(play) EXCEPT !.hand = r.hand])
           /\ ret' = r.ret
    /\ op' = "Hand::hold_all"
    /\ UNCHANGED cursor
    /\ HandUnchanged

HandNext ==
    \/ CallHandNew
    \/ CallHandRerollDice
    \/ CallHandHold
    \/ CallHandHoldAll

HandSpec == PlayInit /\ [][HandNext]_vars

\* the number of held dice among the first i dice of a hand
HeldUpTo(h, i) == Cardinality({ m \in 1..i : h[m].is_held })

\* C11: after a successful reroll_dice() of a hand with k < 5 held dice the
\* hand has exactly 5 dice; the dice that were held stand first, in their
\* order, with their pips and still held; the other 5 - k dice are not held and
\* show pips in 1..6.
C11_RerollKeepsHeld ==
    [][ ( /\ op' = "Hand::reroll_dice" /\ ret' = "Ok"
          /\ HeldUpTo(TheHand, Len(TheHand)) < DICE_NUM )
        => /\ Len(TheHandAfter) = 5
           /\ \A i \in 1..Len(TheHand) :
                TheHand[i].is_held =>
                  TheHandAfter[HeldUpTo(TheHand, i)] = TheHand[i]
           /\ \A j \in (HeldUpTo(TheHand, Len(TheHand)) + 1)..5 :
                /\ ~TheHandAfter[j].is_held
                /\ TheHandAfter[j].pip \in 1..6 ]_vars

\* a reroll has kept the two held dice, a 2 and a 1, in front of three new dice
C11_Witness ==
    /\ op = "Hand::reroll_dice" /\ ret = "Ok"
    /\ Len(TheHand) = 5
    /\ TheHand[1] = [pip |-> 2, is_held |-> TRUE]
    /\ TheHand[2] = [pip |-> 1, is_held |-> TRUE]
    /\ \A j \in 3..5 : ~TheHand[j].is_held

\* C12: reroll_dice() on five dice that are all held returns NoDiceToReroll
\* and leaves the hand, every pip, position and held flag, as it was.
C12_RerollAllHeld ==
    [][ ( /\ op' = "Hand::reroll_dice"
          /\ Len(TheHand) = 5
          /\ \A i \in 1..5 : TheHand[i].is_held )
        => /\ ret' = "HandOpError::NoDiceToReroll"
           /\ TheHandAfter = TheHand ]_vars

\* reroll_dice() has just been refused on five held dice that are not all alike
C12_Witness ==
    /\ op = "Hand::reroll_dice" /\ ret = "HandOpError::NoDiceToReroll"
    /\ Len(TheHand) = 5
    /\ \A i \in 1..5 : TheHand[i].is_held
    /\ TheHand[1].pip # TheHand[5].pip

\* C13: hold(pos, flag) with pos outside 0..4 fails and leaves the hand as it
\* was; with pos in 0..4 on a die that exists it succeeds and sets the flag of
\* that die to flag, all other flags and all pips staying.
C13_HoldOneDie ==
    [][ op' \in {"Hand::hold(true)", "Hand::hold(false)"} =>
          LET pos  == cursor'.pos
              flag == (op' = "Hand::hold(true)")
          IN  /\ pos \notin 0..4 => ret' # "Ok" /\ TheHandAfter = TheHand
              /\ (pos \in 0..4 /\ pos < Len(TheHand)) =>
                   /\ ret' = "Ok"
                   /\ Len(TheHandAfter) = Len(TheHand)
                   /\ TheHandAfter[pos + 1].is_held = flag
                   /\ \A i \in 1..Len(TheHand) :
                        /\ TheHandAfter[i].pip = TheHand[i].pip
                        /\ i # pos + 1 => TheHandAfter[i].is_held = TheHand[i].is_held ]_vars

\* hold(4, false) has released the last die of a hand whose other dice are held
C13_Witness ==
    /\ op = "Hand::hold(false)" /\ ret = "Ok"
    /\ cursor = [kind |-> "Hand", pos |-> 4, box |-> "-"]
    /\ Len(TheHand) = 5
    /\ ~TheHand[5].is_held
    /\ \A i \in 1..4 : TheHand[i].is_held

(***************************************************************************)
(* ui.rs: what drawing a frame asks of the scoring engine                  *)
(***************************************************************************)
\* draw_score_table: the closure is_playing
is_playing(a, pid) ==
    get_play_data(a) = "Ok" /\ pid = Unwrap(a.play).player_id

\* draw_score_table: the closure dislay_dice, the pips of the hand of the
\* Play for the player who is playing; unwrap_pips panics on a hand of more
\* than DICE_NUM dice
dislay_dice(a, pid) ==
    IF is_playing(a, pid)
    THEN LET d == unwrap_pips(get_pips(Unwrap(a.play).hand))
         IN  [ret |-> d.ret, val |-> IF d.ret = "Ok" THEN Some(d.val) ELSE None]
    ELSE [ret |-> "Ok", val |-> None]

\* draw_score_table: one cell of the row of box b, for player pid.  The cell
\* takes the score table of the player, then the dice, and calls scoring when
\* the box is open and the player is playing; scoring panics on a hand that
\* has not DICE_NUM dice.  args are the dice the cell passes to scoring.
score_cell(a, b, pid) ==
    LET st   == get_score_table(Unwrap(a.game_data), pid)
        dice == dislay_dice(a, pid)
    IN  IF st.ret # "Ok" THEN [ret |-> "Panic", args |-> {}]
        ELSE IF dice.ret # "Ok" THEN [ret |-> "Panic", args |-> {}]
        ELSE IF has_score_in(st.table, b) THEN [ret |-> "Ok", args |-> {}]
        ELSE IF IsSome(dice.val)
        THEN [ret  |-> IF scoring(b, Unwrap(dice.val)) < 0 THEN "Panic" ELSE "Ok",
              args |-> {Unwrap(dice.val)}]
        ELSE [ret |-> "Ok", args |-> {}]

\* draw_score_table: the cell of player pid in the bonus row.  With the
\* cursor on a box of the table it calls scoring for that box, filled or not:
\* for the bonus while the bonus is undecided, then for the upper total.
bonus_cell(a, pid) ==
    LET st   == get_score_table(Unwrap(a.game_data), pid)
        dice == dislay_dice(a, pid)
    IN  IF st.ret # "Ok" THEN [ret |-> "Panic", args |-> {}]
        ELSE IF dice.ret # "Ok" THEN [ret |-> "Panic", args |-> {}]
        ELSE IF is_playing(a, pid) /\ IsSome(dice.val) /\ a.cursor.kind = "Table"
        THEN [ret  |-> IF scoring(a.cursor.box, Unwrap(dice.val)) < 0
                       THEN "Panic" ELSE "Ok",
              args |-> {Unwrap(dice.val)}]
        ELSE [ret |-> "Ok", args |-> {}]

\* draw_score_table: the cell of player pid in the total row
total_cell(a, pid) ==
    LET st   == get_score_table(Unwrap(a.game_data), pid)
        dice == dislay_dice(a, pid)
    IN  IF st.ret # "Ok" THEN [ret |-> "Panic", args |-> {}]
        ELSE IF dice.ret # "Ok" THEN [ret |-> "Panic", args |-> {}]
        ELSE IF is_playing(a, pid) /\ IsSome(dice.val) /\ a.cursor.kind = "Table"
        THEN [ret  |-> IF scoring(a.cursor.box, Unwrap(dice.val)) < 0
                       THEN "Panic" ELSE "Ok",
              args |-> {Unwrap(dice.val)}]
        ELSE [ret |-> "Ok", args |-> {}]

\* draw_score_table: the cells in the order the code builds them, the rows of
\* the boxes first, then the bonus row, then the total row, every row from
\* player 0 to the last player
score_table_cell(a, row, pid) ==
    IF row <= Len(Boxes) THEN score_cell(a, Boxes[row], pid)
    ELSE IF row = Len(Boxes) + 1 THEN bonus_cell(a, pid)
    ELSE total_cell(a, pid)

\* draw_score_table from the cell of player pid in row row on: the first
\* cell that panics ends the frame, and the calls of scoring made before it
\* have been made
RECURSIVE score_table_cells(_, _, _)
score_table_cells(a, row, pid) ==
    IF row > Len(Boxes) + 2 THEN [ret |-> "Ok", args |-> {}]
    ELSE IF pid >= get_num_players(Unwrap(a.game_data))
    THEN score_table_cells(a, row + 1, 0)
    ELSE LET c == score_table_cell(a, row, pid)
         IN  IF c.ret # "Ok" THEN c
             ELSE LET rest == score_table_cells(a, row, pid + 1)
                  IN  [ret |-> rest.ret, args |-> c.args \cup rest.args]

\* draw_score_table: the dice it passes to scoring before it returns or
\* panics; get_game_data panics before any cell without game data
scoring_args(a) ==
    IF IsNone(a.game_data) THEN {}
    ELSE score_table_cells(a, 1, 0).args

\* draw_score_table: panics without game data (get_game_data) and in the
\* first cell that panics
draw_score_table(a) ==
    IF IsNone(a.game_data) THEN "Panic"
    ELSE score_table_cells(a, 1, 0).ret

\* the hand of a Play: at most 5 dice, pips in 1..6, no dice in Init and
\* exactly 5 dice in the other phases
HandShape ==
    IsSome(play) =>
      /\ Len(ThePlay.hand) <= 5
      /\ \A i \in 1..Len(ThePlay.hand) : ThePlay.hand[i].pip \in 1..6
      /\ Len(ThePlay.hand) = 0 <=> ThePlay.phase.tag = "Init"
      /\ ThePlay.phase.tag \in {"Roll", "SelectOrReroll", "Select"}
           => Len(ThePlay.hand) = 5

\* C15 as claimed: the hand has at most 5 dice with pips in 1..6, is empty
\* exactly in Init and has 5 dice in Roll, SelectOrReroll and Select, and the
\* frame drawn of a state the App goes on from passes to scoring no hand that
\* has not 5 dice.
C15_Original ==
    /\ HandShape
    /\ Running => \A d \in scoring_args(app) : Len(d) = 5

\* C14: after a successful progress() out of Roll(n), to SelectOrReroll(n) for
\* n in {1,2} or to Select for n = 3, all five dice are held and the hand shows
\* the pips it showed before the call.
C14_HoldAllAfterRoll ==
    [][ (op' = "progress" /\ ret' = "Ok" /\ ThePlay.phase.tag = "Roll") =>
          /\ ThePlayAfter.phase.tag =
               (IF ThePlay.phase.count = 3 THEN "Select" ELSE "SelectOrReroll")
          /\ \A i \in 1..5 : ThePlayAfter.is_held[i]
          /\ Len(ThePlayAfter.hand) = 5
          /\ \A i \in 1..5 : ThePlayAfter.hand[i].pip = ThePlay.hand[i].pip ]_vars

\* progress() has taken a Play from Roll(3) to Select with all dice held on a
\* hand of mixed pips
C14_Witness ==
    /\ op = "progress" /\ ret = "Ok"
    /\ ThePlay.phase.tag = "Select"
    /\ \A i \in 1..5 : ThePlay.is_held[i]
    /\ ThePlay.hand[1].pip # ThePlay.hand[2].pip

(***************************************************************************)
(* ScoreSpec: one ScoreTable filled by confirm_score in every order, an    *)
(* upper box with its pip times 0 or PAR_COUNT..MaxCount dice, and at most *)
(* MaxLower boxes of the lower section, each with one score.               *)
(***************************************************************************)
MaxCount == 3

MaxLower == 1

IsUpper(b) == \E i \in 1..Len(BONUS_TARGETS) : BONUS_TARGETS[i].box = b

LowerScore(b) ==
    CASE b = "FullHouse" -> FULL_HOUSE_SCORE
      [] b = "SmallStraight" -> SMALL_STRAIGHT_SCORE
      [] b = "LargeStraight" -> LARGE_STRAIGHT_SCORE
      [] b = "Yahtzee" -> YAHTZEE_SCORE
      [] OTHER -> DICE_NUM

ScoresFor(b) ==
    IF IsUpper(b)
    THEN { BONUS_TARGETS[i].pip * n :
             i \in { j \in 1..Len(BONUS_TARGETS) : BONUS_TARGETS[j].box = b },
             n \in {0} \cup (PAR_COUNT..MaxCount) }
    ELSE { LowerScore(b) }

LowerFilled(t) == Cardinality({ b \in BoxSet : ~IsUpper(b) /\ is_filled(t[b]) })

CallConfirmOpenBox ==
    \E b \in BoxSet :
      \E score \in ScoresFor(b) :
        /\ ~has_score_in(TheTable, b)
        /\ IsUpper(b) \/ LowerFilled(TheTable) < MaxLower
        /\ LET r == confirm_score(TheTable, b, score)
           IN  /\ game_data' = Some([Unwrap(game_data) EXCEPT !.scores[1] = r.table])
               /\ ret' = r.ret
        /\ op' = "confirm_score"
        /\ UNCHANGED <<state, start_sel, num_sel, play, cursor, rng>>

ScoreNext == CallConfirmOpenBox

ScoreSpec == TableInit /\ [][ScoreNext]_vars

\* the score of a box, 0 for an open box
ScoreOf(t, b) == IF Len(t[b]) = 1 THEN t[b][1] ELSE 0

\* the sum of the scores of the six upper boxes, Boxes[1] .. Boxes[6]
UpperSubtotal(t) == SumSeq([i \in 1..6 |-> ScoreOf(t, Boxes[i])])

\* the upper subtotal if every open upper box got five dice of its face
UpperPotential(t) ==
    SumSeq([i \in 1..6 |-> IF Len(t[Boxes[i]]) = 1 THEN t[Boxes[i]][1] ELSE 5 * i])

\* the scores a projection is asked about
ProbeScores(b) == {0, BONUS_THRESHOLD}

\* C16: calculate_bonus() is Some(35) iff the upper subtotal is at least 63,
\* otherwise Some(0) iff the filled upper scores plus 5 times the face of
\* every open upper box stay below 63, otherwise None; the table with only
\* Aces filled, with 3, yields None.
C16_BonusThreeValued ==
    /\ calculate_bonus(TheTable) =
         ( IF UpperSubtotal(TheTable) >= 63 THEN <<35>>
           ELSE IF UpperPotential(TheTable) < 63 THEN <<0>>
           ELSE <<>> )
    /\ ( /\ TheTable["Aces"] = <<3>>
         /\ \A b \in BoxSet \ {"Aces"} : TheTable[b] = <<>> )
       => calculate_bonus(TheTable) = <<>>

\* the six upper boxes hold three dice each, 63 points, and the bonus is 35
C16_Witness ==
    /\ \A i \in 1..6 : TheTable[Boxes[i]] = <<3 * i>>
    /\ calculate_bonus(TheTable) = <<35>>

\* C17: for an open box b and a score s, the three projections of the table
\* return what get_total_upper_score(), calculate_bonus() and
\* get_total_score() return once confirm_score(b, s) has filled the box.
C17_ProjectionsAgree ==
    [][ (op' = "confirm_score" /\ ret' = "Ok" /\ TheTableAfter # TheTable) =>
          LET b == CHOOSE c \in BoxSet : TheTableAfter[c] # TheTable[c]
              s == TheTableAfter[b][1]
          IN  /\ TheTable[b] = <<>>
              /\ get_total_upper_score_if_filled_by(TheTable, b, s)
                   = get_total_upper_score(TheTableAfter)
              /\ calculate_bonus_if_filled_by(TheTable, b, s)
                   = calculate_bonus(TheTableAfter)
              /\ get_total_score_if_filled_by(TheTable, b, s)
                   = get_total_score(TheTableAfter) ]_vars

\* a confirm_score has just decided the bonus: 63 points in the upper section
\* and a full house, 123 in total
C17_Witness ==
    /\ op = "confirm_score" /\ ret = "Ok"
    /\ UpperSubtotal(TheTable) = 63
    /\ TheTable["FullHouse"] = <<25>>
    /\ get_total_score(TheTable) = 123

\* C18: for a filled box b the three projections ignore the score they are
\* asked about and return the upper subtotal, the bonus and the total of the
\* table as it is.
C18_ProjectionsIgnoreFilled ==
    LET upper == get_total_upper_score(TheTable)
        bonus == calculate_bonus(TheTable)
        total == get_total_score(TheTable)
    IN  \A b \in BoxSet :
          Len(TheTable[b]) = 1 =>
            \A s \in ProbeScores(b) :
              /\ get_total_upper_score_if_filled_by(TheTable, b, s) = upper
              /\ calculate_bonus_if_filled_by(TheTable, b, s) = bonus
              /\ get_total_score_if_filled_by(TheTable, b, s) = total

\* Aces is filled with 0 and nothing else: asked about 63 in Aces, the
\* projections still report no upper score and an open bonus
C18_Witness ==
    /\ TheTable["Aces"] = <<0>>
    /\ \A b \in BoxSet \ {"Aces"} : TheTable[b] = <<>>
    /\ get_total_upper_score_if_filled_by(TheTable, "Aces", 63) = 0
    /\ calculate_bonus_if_filled_by(TheTable, "Aces", 63) = <<>>
    /\ get_total_score_if_filled_by(TheTable, "Aces", 63) = 0

\* C19: get_total_score() is the sum of the scores of the filled boxes plus 35
\* when calculate_bonus() is Some(35), and plus nothing when it is Some(0) or
\* None.
C19_TotalScore ==
    get_total_score(TheTable) =
      SumSeq([i \in 1..13 |-> ScoreOf(TheTable, Boxes[i])])
        + (IF calculate_bonus(TheTable) = <<35>> THEN 35 ELSE 0)

\* three dice in every upper box and a Yahtzee: 63 + 50 + 35
C19_Witness ==
    /\ \A i \in 1..6 : TheTable[Boxes[i]] = <<3 * i>>
    /\ TheTable["Yahtzee"] = <<50>>
    /\ get_total_score(TheTable) = 148

(***************************************************************************)
(* PlayersSpec: the GameData of a game of 1 to HIGHEST_PLAYER_ID players,  *)
(* in which any player's table, in any order of the players, gets a score  *)
(* in its first open box until it has MaxFilled scores.                    *)
(***************************************************************************)
PlayersInit ==
    /\ state = "Play"
    /\ start_sel = "Play"
    /\ num_sel = LOWEST_PLAYER_ID
    /\ play = None
    /\ cursor = CursorDisappear
    /\ game_data \in { Some(GameData_new(n)) : n \in LOWEST_PLAYER_ID..HIGHEST_PLAYER_ID }
    /\ rng = {Loaded}
    /\ op = "new"
    /\ ret = "Ok"

CallConfirmScoreOf ==
    \E pid \in 0..(get_num_players(TheGame) - 1) :
      LET t == get_score_table(TheGame, pid).table
          open == { i \in 1..Len(Boxes) : ~has_score_in(t, Boxes[i]) }
          b == Boxes[CHOOSE i \in open : \A j \in open : i <= j]
          r == confirm_score(t, b, 0)
      IN  /\ get_num_filled_scores(t) < MaxFilled
          /\ game_data' = Some([TheGame EXCEPT !.scores[pid + 1] = r.table])
          /\ ret' = r.ret
          /\ op' = "confirm_score"
          /\ UNCHANGED <<state, start_sel, num_sel, play, cursor, rng>>

PlayersNext == CallConfirmScoreOf

PlayersSpec == PlayersInit /\ [][PlayersNext]_vars

\* the indices i of 1..num_players-1 whose player has fewer boxes filled than
\* player i-1
Behind(g) ==
    { i \in 1..(g.num_players - 1) : FilledIn(g.scores[i + 1]) < FilledIn(g.scores[i]) }

\* C20: whatever the numbers of filled boxes of the players, current_player_id()
\* returns the smallest i in 1..num_players-1 whose player has fewer boxes
\* filled than player i-1, and 0 when there is none, as for one player.
C20_CurrentPlayer ==
    current_player_id(TheGame) =
      ( IF Behind(TheGame) = {} THEN 0
        ELSE CHOOSE i \in Behind(TheGame) : \A j \in Behind(TheGame) : i <= j )

\* three players with 2, 1 and 0 boxes filled: players 1 and 2 are both behind
\* their neighbour, and player 1 is named
C20_Witness ==
    /\ TheGame.num_players = 3
    /\ FilledIn(TheGame.scores[1]) = 2
    /\ FilledIn(TheGame.scores[2]) = 1
    /\ FilledIn(TheGame.scores[3]) = 0
    /\ current_player_id(TheGame) = 1

(***************************************************************************)
(* ScoringSpec: scoring on every ordered hand of DICE_NUM dice with pips   *)
(* in PIPS, for every box.  The hand is that of a Play after its first     *)
(* roll; a call writes the score of the hand for a box into that box of a  *)
(* new table and leaves the box in cursor.                                 *)
(***************************************************************************)
ScoringInit ==
    /\ state = "Play"
    /\ start_sel = "Play"
    /\ num_sel = LOWEST_PLAYER_ID
    /\ \E h \in [1..DICE_NUM -> { [pip |-> PIPS[i], is_held |-> FALSE] : i \in 1..Len(PIPS) }] :
         play = Some(hold_all_dice([Play_new(0) EXCEPT
                                      !.hand = h,
                                      !.phase = PhaseSelectOrReroll(INIT_ROLL_COUNT)]))
    /\ cursor = CursorDisappear
    /\ game_data = Some(GameData_new(1))
    /\ rng = {Loaded}
    /\ op = "new"
    /\ ret = "Ok"

CallScoring ==
    \E b \in BoxSet :
      LET score == scoring(b, unwrap_pips(get_pips(ThePlay.hand)).val)
          r     == confirm_score(ScoreTable_new, b, score)
      IN  /\ score >= 0
          /\ game_data' = Some([GameData_new(1) EXCEPT !.scores[1] = r.table])
          /\ cursor' = CursorTable(b)
          /\ op' = "scoring"
          /\ ret' = r.ret
          /\ UNCHANGED <<state, start_sel, num_sel, play, rng>>

ScoringNext == CallScoring

ScoringSpec == ScoringInit /\ [][ScoringNext]_vars

\* the pip of the i-th die of the hand, the number of dice showing face f,
\* the sum of the five pips and the set of faces shown
Pip(i) == ThePlay.hand[i].pip
CountFace(f) == Cardinality({ i \in 1..5 : Pip(i) = f })
SumOfPips == Pip(1) + Pip(2) + Pip(3) + Pip(4) + Pip(5)
FacesShown == { Pip(i) : i \in 1..5 }

\* the score scoring has written for box b, if it was called for b
Scored(b) == op = "scoring" /\ cursor.box = b
TheScore == TheTable[cursor.box][1]

\* C21: for n in {3,4} the n-of-a-kind score of a hand is the sum of its five
\* pips if some face shows on at least n dice, wherever they sit, and 0
\* otherwise.
C21_NOfAKind ==
    /\ Scored("ThreeOfaAKind") =>
         TheScore = (IF \E f \in 1..6 : CountFace(f) >= 3 THEN SumOfPips ELSE 0)
    /\ Scored("FourOfaAKind") =>
         TheScore = (IF \E f \in 1..6 : CountFace(f) >= 4 THEN SumOfPips ELSE 0)

\* three sixes at the end of the hand 1 2 6 6 6 score 21 as three of a kind
C21_Witness ==
    /\ Scored("ThreeOfaAKind")
    /\ <<Pip(1), Pip(2), Pip(3), Pip(4), Pip(5)>> = <<1, 2, 6, 6, 6>>
    /\ TheScore = 21

\* C22: the FullHouse score is 25 iff exactly two faces show, one on two dice
\* and one on three, and 0 otherwise; five alike and four plus one score 0.
C22_FullHouse ==
    Scored("FullHouse") =>
      TheScore = ( IF /\ Cardinality(FacesShown) = 2
                      /\ \E f \in FacesShown : CountFace(f) = 2
                      /\ \E f \in FacesShown : CountFace(f) = 3
                   THEN 25 ELSE 0 )

\* the unsorted hand 5 2 5 2 2 scores 25 as a full house
C22_Witness ==
    /\ Scored("FullHouse")
    /\ <<Pip(1), Pip(2), Pip(3), Pip(4), Pip(5)>> = <<5, 2, 5, 2, 2>>
    /\ TheScore = 25

\* C23: the SmallStraight score is 30 iff the faces shown include 1..4, 2..5
\* or 3..6, and 0 otherwise.
C23_SmallStraight ==
    Scored("SmallStraight") =>
      TheScore = ( IF \E lo \in 1..3 : (lo..(lo + 3)) \subseteq FacesShown
                   THEN 30 ELSE 0 )

\* the hand 4 3 3 6 5, with a pair inside the run 3..6, scores 30
C23_Witness ==
    /\ Scored("SmallStraight")
    /\ <<Pip(1), Pip(2), Pip(3), Pip(4), Pip(5)>> = <<4, 3, 3, 6, 5>>
    /\ TheScore = 30

\* C24: the LargeStraight score is 40 iff the five dice are pairwise distinct
\* and show 1..5 or 2..6, and 0 otherwise.
C24_LargeStraight ==
    Scored("LargeStraight") =>
      TheScore = ( IF FacesShown = 1..5 \/ FacesShown = 2..6 THEN 40 ELSE 0 )

\* the unsorted hand 6 2 4 3 5 scores 40
C24_Witness ==
    /\ Scored("LargeStraight")
    /\ <<Pip(1), Pip(2), Pip(3), Pip(4), Pip(5)>> = <<6, 2, 4, 3, 5>>
    /\ TheScore = 40

\* C25: the Yahtzee score is 50 iff all five dice show the same face, and 0
\* otherwise.
C25_Yahtzee ==
    Scored("Yahtzee") =>
      TheScore = (IF \A i \in 1..5 : Pip(i) = Pip(1) THEN 50 ELSE 0)

\* five fours score 50
C25_Witness ==
    /\ Scored("Yahtzee")
    /\ \A i \in 1..5 : Pip(i) = 4
    /\ TheScore = 50

\* C26: the score of the upper box of face f, Boxes[f] for f in 1..6, is f
\* times the number of dice showing f.
C26_UpperSection ==
    \A f \in 1..6 : Scored(Boxes[f]) => TheScore = f * CountFace(f)

\* the hand 3 1 3 6 3 scores 9 in Threes
C26_Witness ==
    /\ Scored("Threes")
    /\ <<Pip(1), Pip(2), Pip(3), Pip(4), Pip(5)>> = <<3, 1, 3, 6, 3>>
    /\ TheScore = 9

\* C27: the Chance score is the sum of the five pips, whatever the hand.
C27_Chance ==
    Scored("Chance") => TheScore = SumOfPips

\* the hand 1 3 4 6 6, which fits no other lower box, scores 20 in Chance
C27_Witness ==
    /\ Scored("Chance")
    /\ <<Pip(1), Pip(2), Pip(3), Pip(4), Pip(5)>> = <<1, 3, 4, 6, 6>>
    /\ TheScore = 20

\* C28: whenever a Play is live and the cursor is on a box of the score
\* table, that box is not filled in the table of the Play's player.
C28_CursorOnOpenBox ==
    (state = "Play" /\ IsSome(play) /\ IsSome(game_data) /\ cursor.kind = "Table") =>
      Len(TheGame.scores[ThePlay.player_id + 1][cursor.box]) = 0

\* in the second turn of a game of one player, whose Aces are filled, the
\* cursor went up from Twos, past Aces, to Chance
C28_Witness ==
    /\ state = "Play" /\ IsSome(play) /\ IsSome(game_data)
    /\ Len(TheGame.scores) = 1
    /\ Len(TheGame.scores[1]["Aces"]) = 1
    /\ cursor.kind = "Table"
    /\ cursor.box = "Chance"

\* C29: in every state of a game the numbers of filled boxes do not increase
\* with the player index, and the first player has at most one box more
\* filled than the last.
C29_RoundRobinLockstep ==
    IsSome(game_data) =>
      LET n == Len(TheGame.scores)
      IN  /\ \A i \in 1..n, j \in 1..n :
               i < j => FilledIn(TheGame.scores[i]) >= FilledIn(TheGame.scores[j])
          /\ FilledIn(TheGame.scores[1]) - FilledIn(TheGame.scores[n]) <= 1

\* in a game of two players, the first has filled seven boxes and the second
\* six, and the second player's turn is on
C29_Witness ==
    /\ state = "Play" /\ IsSome(play) /\ IsSome(game_data)
    /\ Len(TheGame.scores) = 2
    /\ FilledIn(TheGame.scores[1]) = 7
    /\ FilledIn(TheGame.scores[2]) = 6
    /\ ThePlay.player_id = 1

\* a step in which the turn of the live Play ends with the cursor on a box of
\* the table: the commit of a score
CommitStep ==
    /\ state = "Play" /\ IsSome(play) /\ IsSome(game_data)
    /\ cursor.kind = "Table"
    /\ play' = <<>>
    /\ IsSome(game_data')

\* C30: a commit changes the box under the cursor in the table of the acting
\* player and nothing else: every other box of that table and every other
\* table is as before, and the acting player has exactly one more box filled.
\* Every table of a game has exactly the 13 boxes.
C30_CommitFrame ==
    [][ /\ CommitStep =>
             LET i == ThePlay.player_id + 1
                 b == cursor.box
             IN  /\ Len(TheGameAfter.scores) = Len(TheGame.scores)
                 /\ TheGameAfter.scores[i][b] # TheGame.scores[i][b]
                 /\ \A c \in BoxSet \ {b} :
                      TheGameAfter.scores[i][c] = TheGame.scores[i][c]
                 /\ \A j \in 1..Len(TheGame.scores) :
                      j # i => TheGameAfter.scores[j] = TheGame.scores[j]
                 /\ FilledIn(TheGameAfter.scores[i]) = FilledIn(TheGame.scores[i]) + 1
        /\ IsSome(game_data') =>
             \A j \in 1..Len(TheGameAfter.scores) :
               /\ DOMAIN TheGameAfter.scores[j] = BoxSet
               /\ Cardinality(DOMAIN TheGameAfter.scores[j]) = 13 ]_vars

\* in a game of two players the second player has scored in FullHouse, a box
\* picked with the cursor, while the first player's table holds one score
C30_Witness ==
    /\ state = "Play" /\ op = "do_action" /\ play = <<>>
    /\ IsSome(game_data)
    /\ Len(TheGame.scores) = 2
    /\ FilledIn(TheGame.scores[1]) = 1
    /\ FilledIn(TheGame.scores[2]) = 1
    /\ Len(TheGame.scores[2]["FullHouse"]) = 1

\* C31: a live Play belongs to the player whose turn it is.  After every step
\* that leaves a Play live, its player_id is below the number of players and
\* equals current_player_id(), the table of that player has an empty box, and
\* if a Play was live before the step it is the same player's; a Play in Init
\* appears only when no Play was live or stays as it was.
C31_PlayOfCurrentPlayer ==
    [][ (state' = "Play" /\ IsSome(play') /\ IsSome(game_data')) =>
          LET pid == Unwrap(play').player_id
          IN  /\ pid < TheGameAfter.num_players
              /\ pid < Len(TheGameAfter.scores)
              /\ pid = current_player_id(TheGameAfter)
              /\ FilledIn(TheGameAfter.scores[pid + 1]) < 13
              /\ IsSome(play) => /\ ThePlay.player_id = pid
                                 /\ Unwrap(play').phase.tag = "Init" => play' = play ]_vars

\* the Play of the second player's seventh turn in a game of two players
C31_Witness ==
    /\ state = "Play" /\ IsSome(play) /\ IsSome(game_data)
    /\ Len(TheGame.scores) = 2
    /\ ThePlay.player_id = 1
    /\ ThePlay.phase.tag = "SelectOrReroll"
    /\ FilledIn(TheGame.scores[1]) = 7
    /\ FilledIn(TheGame.scores[2]) = 6
    /\ current_player_id(TheGame) = 1

\* C32: the held flags of the Play (is_held) and the held flags of the dice
\* of its hand agree at every position of the hand, in every state.
C32_Original ==
    IsSome(play) =>
      \A i \in 1..Len(ThePlay.hand) : ThePlay.is_held[i] = ThePlay.hand[i].is_held

\* C33: a call of do_action made with the cursor on Roll in SelectOrReroll
\* while every die is held by the Play does not panic, and if it leaves the
\* cursor on Roll (as Select does) it changes neither the Play (phase, hand,
\* held flags) nor the score tables.
C33_Original ==
    [][ ( /\ state = "Play" /\ IsSome(play)
          /\ ThePlay.phase.tag = "SelectOrReroll"
          /\ cursor = CursorRoll
          /\ \A i \in 1..DICE_NUM : ThePlay.is_held[i]
          /\ op' = "do_action" )
        => /\ ret' # "Panic"
           /\ cursor' = cursor => (play' = play /\ game_data' = game_data) ]_vars

\* C34: whenever the App runs a Play in SelectOrReroll(n) with the cursor on
\* Roll, not every die is held, and Select takes the Play to Roll(n + 1)
\* without a failure.
C34_Original ==
    ( /\ Running
      /\ state = "Play" /\ IsSome(play)
      /\ ThePlay.phase.tag = "SelectOrReroll"
      /\ cursor = CursorRoll )
    => /\ ~get_is_held_all(ThePlay)
       /\ \A r \in do_action(app, "Select") :
            /\ r.ret = "Continue"
            /\ Unwrap(r.app.play).phase = PhaseRoll(ThePlay.phase.count + 1)

(***************************************************************************)
(* LiveSpec: whole games of at most MaxPlayers players, with dice that all *)
(* show the face Loaded and every score going to the first open box, as in *)
(* GameSpec, under the fairness the game asks of its players: wherever the *)
(* player comes again and again, the key that brings the game forward from *)
(* there is pressed in the end (strong fairness for every distance to the  *)
(* next step that cannot be taken back).  Every other key may be pressed   *)
(* in between.                                                             *)
(***************************************************************************)
\* the menu of SelectNumPlayers does not go past MaxPlayers players
MenuWithinMaxPlayers(ev) ==
    /\ (ev = "Down" /\ num_sel # Back) => num_sel < MaxPlayers
    /\ (ev = "Up" /\ num_sel = Back) => MaxPlayers = HIGHEST_PLAYER_ID

LiveSelectNumPlayersEvent ==
    \E ev \in Actions :
      state = "SelectNumPlayers" /\ MenuWithinMaxPlayers(ev) /\ Event(ev)

LiveNext ==
    \/ StartMenuEvent
    \/ LiveSelectNumPlayersEvent
    \/ GamePlayEvent
    \/ ResultEvent

\* the key that brings the game forward from the current state: towards a
\* number of players in the menus, towards the table and the commit in a turn
Forward(ev) ==
    CASE state = "StartMenu" ->
           IF start_sel = "Play" THEN ev = "Select" ELSE ev = "Down"
      [] state = "SelectNumPlayers" ->
           IF num_sel # Back THEN ev = "Select" ELSE ev = "Down"
      [] state = "Play" /\ IsNone(play) -> ev = "Pass"
      [] state = "Play" /\ IsSome(play) ->
           IF ThePlay.phase.tag = "SelectOrReroll" /\ cursor.kind # "Table"
           THEN ev = "Right"
           ELSE ev = "Select"
      [] OTHER -> FALSE

\* one call of do_action with the key that brings the game forward
Advance == \E ev \in Actions : Forward(ev) /\ Event(ev)

\* the number of forward keys from the current state to the next step that
\* cannot be taken back: the choice of the number of players, the start of a
\* turn, a roll, a commit
StepsToGo ==
    CASE state = "StartMenu" -> IF start_sel = "Play" THEN 1 ELSE 2
      [] state = "SelectNumPlayers" -> IF num_sel # Back THEN 0 ELSE 1
      [] state = "Play" /\ IsSome(play) /\ ThePlay.phase.tag = "SelectOrReroll" ->
           ( CASE cursor.kind \in {"Hand", "Dust"} -> DICE_NUM - cursor.pos
               [] cursor.kind = "Roll" -> 1
               [] OTHER -> 0 )
      [] OTHER -> 0

LiveSpec ==
    Init /\ [][LiveNext]_vars
         /\ \A d \in 0..DICE_NUM : SF_vars(StepsToGo = d /\ Advance)

\* the number of filled boxes of all tables of a game
FilledInGame(gd) ==
    IF IsNone(gd) THEN 0
    ELSE Cardinality({ ib \in (1..Len(Unwrap(gd).scores)) \X BoxSet :
                         Len(Unwrap(gd).scores[ib[1]][ib[2]]) = 1 })

\* under LiveSpec every game ends in Result, with the player quitting, or
\* with a panic
EndsOrPanics == <>(state = "Result" \/ ret \in {"Exit", "Panic"})

\* C37 as claimed: a Play ends only with a commit and a commit ends the Play,
\* every commit raises the number of filled boxes of the game by one, the App
\* enters Result with the commit that fills box number 13 * num_players and
\* not before, and once in Result no call changes a table or leaves Result;
\* with players who keep progressing and do not quit, the App reaches Result.
C37_Original ==
    /\ [][ /\ (state = "Play" /\ IsSome(play) /\ play' = <<>>) =>
                FilledInGame(game_data') = FilledInGame(game_data) + 1
           /\ (state = "Play" /\ game_data' # game_data) =>
                /\ IsSome(play) /\ play' = <<>>
                /\ FilledInGame(game_data') = FilledInGame(game_data) + 1
           /\ (state = "Play" /\ state' = "Result") =>
                /\ FilledInGame(game_data') = FilledInGame(game_data) + 1
                /\ FilledInGame(game_data') = 13 * TheGameAfter.num_players
           /\ (state' = "Play" /\ IsSome(game_data')) =>
                FilledInGame(game_data') < 13 * TheGameAfter.num_players
           /\ state = "Result" => (state' = "Result" /\ game_data' = game_data) ]_vars
    /\ <>( \/ ret = "Exit"
           \/ /\ state = "Result"
              /\ FilledInGame(game_data) = 13 * TheGame.num_players )

\* C38: the bonus is stable once decided.  If calculate_bonus() is Some(v)
\* before a confirm it is the same Some(v) after it, it is Some once the six
\* upper boxes are filled, and get_total_score() never decreases.
C38_BonusStable ==
    [][ op' = "confirm_score" =>
          LET before == calculate_bonus(TheTable)
              after  == calculate_bonus(TheTableAfter)
          IN  /\ Len(before) = 1 => after = before
              /\ (\A i \in 1..6 : Len(TheTableAfter[Boxes[i]]) = 1) => Len(after) = 1
              /\ get_total_score(TheTableAfter) >= get_total_score(TheTable) ]_vars

\* Fives and Sixes were scored with 0, which decided the bonus as 0 with
\* three upper boxes still open, and Aces got three dice after that
C38_Witness ==
    /\ op = "confirm_score" /\ ret = "Ok"
    /\ TheTable["Fives"] = <<0>> /\ TheTable["Sixes"] = <<0>>
    /\ TheTable["Aces"] = <<3>> /\ TheTable["FullHouse"] = <<25>>
    /\ \A b \in {"Twos", "Threes", "Fours"} : TheTable[b] = <<>>
    /\ calculate_bonus(TheTable) = <<0>>
    /\ get_total_score(TheTable) = 28

\* the seven phases of a turn, in the order in which a Play goes through them
PhasesOfTurn ==
    << [tag |-> "Init", count |-> 0],
       [tag |-> "Roll", count |-> 1], [tag |-> "SelectOrReroll", count |-> 1],
       [tag |-> "Roll", count |-> 2], [tag |-> "SelectOrReroll", count |-> 2],
       [tag |-> "Roll", count |-> 3], [tag |-> "Select", count |-> 0] >>

\* C39: the phase of a Play is always one of Init, Roll(1), SelectOrReroll(1),
\* Roll(2), SelectOrReroll(2), Roll(3) and Select, no call returns
\* UnexpectedRollCount or UnexpectedPlayPhase, and every successful progress()
\* takes the Play from one of the seven phases to the next one, so that a Play
\* makes at most six of them.
C39_SevenPhases ==
    [][ IsSome(play') =>
          /\ \E k \in 1..7 : ThePlayAfter.phase = PhasesOfTurn[k]
          /\ ret' \notin { "PlayPhaseError::UnexpectedRollCount",
                           "PlayPhaseError::UnexpectedPlayPhase" }
          /\ (op' = "progress" /\ ret' = "Ok") =>
               \E k \in 1..6 : /\ ThePlay.phase = PhasesOfTurn[k]
                               /\ ThePlayAfter.phase = PhasesOfTurn[k + 1] ]_vars

\* the sixth successful progress() of a Play has taken it from Roll(3) to
\* Select
C39_Witness ==
    /\ IsSome(play) /\ op = "progress" /\ ret = "Ok"
    /\ ThePlay.phase = PhasesOfTurn[7]
    /\ Len(ThePlay.hand) = 5

====
